---- MODULE Spec2Model ----
(***************************************************************************)
(* HabitFlow: the client's fetch-mutate-refetch handlers and the backend   *)
(* tables, constraints and row-level-security policies they talk to.       *)
(*                                                                         *)
(* A backend call is a record of `calls`: it is "sent" by a handler, the   *)
(* backend executes it at some later step (ServerExec: the write commits   *)
(* or is rejected, the read takes its snapshot), and the reply is handed   *)
(* to the awaiting handler at a still later step (the continuation after   *)
(* `await`).  Any call may also fail with a backend error.                 *)
(***************************************************************************)
EXTENDS Integers, FiniteSets, Sequences, TLC

(* ------------------------------ bounds -------------------------------- *)
\* user-initiated handler invocations in one run, over all sessions
MaxActions == 2

Sessions == {"s1", "s2"}
Users == {"u1", "u2"}

(* ------------------------- program constants -------------------------- *)
\* `${today}T23:59:59`: seconds from the start of the day
WindowEndSec == 86399
\* .limit(30) of fetchMoodEntries
MoodLimit == 30

VARIABLES
    now,                    \* wall clock, in seconds (client and backend)
    user,                   \* useAuth().user of each session: the id, or NoUser
    session,                \* useAuth().session of each session
    authLoading,            \* useAuth().loading of each session
    gotrue,                 \* supabase.auth of each session: the stored session,
                            \* the events not yet delivered, the pending getSession
                            \* and the session it has read
    activeTab,              \* AppContent.activeTab, kept while AuthForm is shown
    habits,                 \* table habits
    habit_completions,      \* table habit_completions
    challenges,             \* table challenges
    challenge_participants, \* table challenge_participants
    mood_entries,           \* table mood_entries
    profiles,               \* table profiles
    auth_users,             \* table auth.users: the ids of the accounts
    objects,                \* storage bucket habit-proofs
    nextId,                 \* gen_random_uuid(): the next fresh row id
    tab,                    \* the screen AppContent renders in each session
    mountId,                \* which instance of the tab's component is mounted
    view,                   \* the mounted component's useState values
    toast,                  \* the toast last shown in each session
    calls,                  \* handler invocations awaiting a backend call
    nActions                \* user-initiated invocations so far

db == <<habits, habit_completions, challenges, challenge_participants,
        mood_entries, profiles, auth_users, objects, nextId>>
auth == <<user, session, authLoading, gotrue, activeTab>>
client == <<tab, mountId, view, toast, calls, nActions>>
vars == <<now, auth, db, client>>

(* ------------------------------ helpers ------------------------------- *)
None == {}
Some(x) == {x}

NoToast == [kind |-> "none", msg |-> ""]
ErrorToast(m) == [kind |-> "error", msg |-> m]
SuccessToast(m) == [kind |-> "success", msg |-> m]

Min(a, b) == IF a <= b THEN a ELSE b

\* user === null
NoUser == "null"
\* the Session object of account uid; null is None
SessionOf(uid) == IF uid = NoUser THEN None ELSE Some([user |-> uid])
\* session?.user ?? null
UserOf(sess) == IF sess = None THEN NoUser ELSE (CHOOSE x \in sess : TRUE).user

\* .limit(n)
Limit(seq, n) == SubSeq(seq, 1, Min(n, Len(seq)))

\* .order('created_at', { ascending: false })
RECURSIVE OrderByCreatedDesc(_)
OrderByCreatedDesc(S) ==
    IF S = {} THEN <<>>
    ELSE LET mx == CHOOSE r \in S : \A q \in S :
                      \/ q.created_at < r.created_at
                      \/ (q.created_at = r.created_at /\ q.id <= r.id)
         IN <<mx>> \o OrderByCreatedDesc(S \ {mx})

\* format(new Date(), 'yyyy-MM-dd')
Today(t) == t \div (WindowEndSec + 1)
\* `${today}T00:00:00`
TodayStart(d) == d * (WindowEndSec + 1)
\* `${today}T23:59:59`
TodayEnd(d) == d * (WindowEndSec + 1) + WindowEndSec
\* .gte('created_at', `${today}T00:00:00`).lt('created_at', `${today}T23:59:59`)
InTodayWindow(ts, d) == ts >= TodayStart(d) /\ ts < TodayEnd(d)

\* the instants the clock is taken to show: midday and the last second of
\* day 0, and midnight of day 1
Instants == {43200, WindowEndSec, WindowEndSec + 1}

FreeCallId == CHOOSE i \in 1..(Cardinality(calls) + 1) : \A c \in calls : c.id # i

\* a handler invocation of session s starts awaiting its first backend call
NewCall(id, s, op, captured) ==
    [id |-> id, s |-> s, m |-> mountId[s], op |-> op, ph |-> "sent"] @@ captured

\* setState of an unmounted component is dropped
Mounted(c) == c.m = mountId[c.s]

Reply(c, err, rows) == [c EXCEPT !.ph = "replied"] @@ [err |-> err, rows |-> rows]

\* the screens of renderContent that the user of Spec visits
WidgetTabs == {"habits", "analytics", "mood", "challenges", "templates"}

\* the screens of renderContent
Screens == WidgetTabs \cup {"dashboard", "goal-breakdown", "proof"}

\* AppContent renders a screen of renderContent when there is a user
SignedIn(s) == tab[s] \in Screens

(* ------------------------- backend: mood_entries ---------------------- *)
\* the messages of the errors the backend answers a rejected write with
CheckViolation == "violates check constraint"
RlsViolation == "new row violates row-level security policy"
KeyViolation == "duplicate key value violates unique constraint"
FetchFailed == "Failed to fetch"

\* the column without its CHECK
MoodRatingCheckDropped(r) == TRUE

\* CHECK (mood_rating >= 1 AND mood_rating <= 5) NOT NULL
MoodRatingCheck(r) == r >= 1 /\ r <= 5

\* policy "Users can manage own mood entries": USING (auth.uid() = user_id)
MoodPolicy(uid, row) == uid = row.user_id

MoodRowsOf(uid) == {r \in mood_entries : MoodPolicy(uid, r) /\ r.user_id = uid}

MoodRowsToday(uid, d) == {r \in MoodRowsOf(uid) : InTodayWindow(r.created_at, d)}

(* ---------------------------- MoodJournal ----------------------------- *)
\* the values of the five mood buttons (moods)
MoodValues == {1, 2, 3, 4, 5}
\* the button each session's user is taken to click, and the reflections typed
ClickedMoods(s) == IF s = "s1" THEN {2} ELSE {5}
ReflectionTexts == {""}

\* reflection.trim() || null
ReflectionOrNull(t) == IF t = "" THEN None ELSE Some(t)

MoodInitView ==
    [moodEntries |-> <<>>, todayMood |-> None, reflection |-> "",
     loading |-> TRUE, submitting |-> FALSE]

\* useEffect: fetchMoodEntries(); checkTodayMood();  (instance m of session s)
MoodMountCalls(s, m) ==
    LET i1 == FreeCallId
        i2 == CHOOSE i \in 1..(Cardinality(calls) + 2) :
                  i # i1 /\ \A c \in calls : c.id # i
    IN {[id |-> i1, s |-> s, m |-> m, op |-> "fetchMoodEntries", ph |-> "sent"],
        [id |-> i2, s |-> s, m |-> m, op |-> "checkTodayMood", ph |-> "sent",
         today |-> Today(now)]}

\* onClick={() => setTodayMood(mood.value)}
SelectMood(s, v) ==
    /\ tab[s] = "mood" /\ ~view[s].loading
    /\ view' = [view EXCEPT ![s].todayMood = Some(v)]
    /\ UNCHANGED <<now, auth, db, tab, mountId, toast, calls, nActions>>

\* onChange={(e) => setReflection(e.target.value)}
EditReflection(s, t) ==
    /\ tab[s] = "mood" /\ ~view[s].loading
    /\ view' = [view EXCEPT ![s].reflection = t]
    /\ UNCHANGED <<now, auth, db, tab, mountId, toast, calls, nActions>>

\* a Save button that stays enabled while submitting
SubmitEnabledWhileSubmitting(s) == view[s].todayMood # None

\* the Save button: disabled={submitting || todayMood === null}
SubmitEnabled(s) == ~view[s].submitting /\ view[s].todayMood # None

\* submitMoodEntry up to its first await: the existence check
SubmitMoodEntry(s) ==
    /\ tab[s] = "mood" /\ ~view[s].loading
    /\ SubmitEnabled(s)
    /\ nActions < MaxActions
    /\ nActions' = nActions + 1
    /\ view' = [view EXCEPT ![s].submitting = TRUE]
    /\ calls' = calls \cup
         {NewCall(FreeCallId, s, "submitMoodEntry",
                  [pc |-> "check", today |-> Today(now),
                   todayMood |-> view[s].todayMood,
                   reflection |-> view[s].reflection])}
    /\ UNCHANGED <<now, auth, db, tab, mountId, toast>>

\* the backend runs the select of fetchMoodEntries
ExecFetchMoodEntries(c) ==
    /\ c.op = "fetchMoodEntries" /\ c.ph = "sent"
    /\ \E fail \in BOOLEAN :
         calls' = (calls \ {c}) \cup
           {IF fail THEN Reply(c, TRUE, <<>>)
            ELSE Reply(c, FALSE,
                       Limit(OrderByCreatedDesc(MoodRowsOf(user[c.s])), MoodLimit))}
    /\ UNCHANGED <<now, auth, db, tab, mountId, view, toast, nActions>>

\* fetchMoodEntries after its await
DoneFetchMoodEntries(c) ==
    /\ c.op = "fetchMoodEntries" /\ c.ph = "replied"
    /\ calls' = calls \ {c}
    /\ view' = IF ~Mounted(c) THEN view
               ELSE [view EXCEPT ![c.s].moodEntries = IF c.err THEN @ ELSE c.rows,
                                 ![c.s].loading = FALSE]
    /\ UNCHANGED <<now, auth, db, tab, mountId, toast, nActions>>

\* the backend runs the select of checkTodayMood; without an ORDER BY any
\* matching row may come first
ExecCheckTodayMood(c) ==
    /\ c.op = "checkTodayMood" /\ c.ph = "sent"
    /\ \E fail \in BOOLEAN :
         IF fail THEN calls' = (calls \ {c}) \cup {Reply(c, TRUE, <<>>)}
         ELSE LET m == MoodRowsToday(user[c.s], c.today) IN
              IF m = {} THEN calls' = (calls \ {c}) \cup {Reply(c, FALSE, <<>>)}
              ELSE \E r \in m : calls' = (calls \ {c}) \cup {Reply(c, FALSE, <<r>>)}
    /\ UNCHANGED <<now, auth, db, tab, mountId, view, toast, nActions>>

\* checkTodayMood after its await
DoneCheckTodayMood(c) ==
    /\ c.op = "checkTodayMood" /\ c.ph = "replied"
    /\ calls' = calls \ {c}
    /\ view' = IF Mounted(c) /\ ~c.err /\ Len(c.rows) > 0
               THEN [view EXCEPT ![c.s].todayMood = Some(c.rows[1].mood_rating),
                                 ![c.s].reflection =
                                     IF c.rows[1].reflection = None THEN ""
                                     ELSE CHOOSE t \in c.rows[1].reflection : TRUE]
               ELSE view
    /\ UNCHANGED <<now, auth, db, tab, mountId, toast, nActions>>

\* the existence check of submitMoodEntry: .select('id') ... .single() gives
\* the row when exactly one matches, and null data otherwise
SingleRow(m) == IF Cardinality(m) = 1 THEN <<CHOOSE r \in m : TRUE>> ELSE <<>>

ExecSubmitCheck(c) ==
    /\ c.op = "submitMoodEntry" /\ c.pc = "check" /\ c.ph = "sent"
    /\ \E fail \in BOOLEAN :
         calls' = (calls \ {c}) \cup
           {IF fail THEN Reply(c, TRUE, <<>>)
            ELSE LET m == MoodRowsToday(user[c.s], c.today)
                 IN Reply(c, Cardinality(m) # 1, SingleRow(m))}
    /\ UNCHANGED <<now, auth, db, tab, mountId, view, toast, nActions>>

\* if (existingEntry) update ... else insert ...
DoneSubmitCheck(c) ==
    /\ c.op = "submitMoodEntry" /\ c.pc = "check" /\ c.ph = "replied"
    /\ calls' = (calls \ {c}) \cup
         {IF Len(c.rows) > 0
          THEN [id |-> c.id, s |-> c.s, m |-> c.m, op |-> c.op, ph |-> "sent",
                pc |-> "update", today |-> c.today, todayMood |-> c.todayMood,
                reflection |-> c.reflection, target |-> c.rows[1].id]
          ELSE [id |-> c.id, s |-> c.s, m |-> c.m, op |-> c.op, ph |-> "sent",
                pc |-> "insert", today |-> c.today, todayMood |-> c.todayMood,
                reflection |-> c.reflection]}
    /\ UNCHANGED <<now, auth, db, tab, mountId, view, toast, nActions>>

\* the backend runs .insert({ user_id, mood_rating, reflection })
InsertMoodRow(uid, row) ==
    IF MoodPolicy(uid, row) /\ MoodRatingCheck(row.mood_rating)
    THEN mood_entries \cup {row}
    ELSE mood_entries

ExecSubmitInsert(c) ==
    /\ c.op = "submitMoodEntry" /\ c.pc = "insert" /\ c.ph = "sent"
    /\ \E fail \in BOOLEAN :
         LET row == [id |-> nextId, user_id |-> user[c.s],
                     mood_rating |-> CHOOSE v \in c.todayMood : TRUE,
                     reflection |-> ReflectionOrNull(c.reflection),
                     created_at |-> now]
             after == IF fail THEN mood_entries ELSE InsertMoodRow(user[c.s], row)
         IN /\ mood_entries' = after
            /\ nextId' = IF after = mood_entries THEN nextId ELSE nextId + 1
            /\ calls' = (calls \ {c}) \cup {Reply(c, after = mood_entries, <<>>)}
    /\ UNCHANGED <<now, auth, habits, habit_completions, challenges,
                   challenge_participants, profiles, auth_users, objects,
                   tab, mountId, view, toast, nActions>>

\* the backend runs .update({ mood_rating, reflection }).eq('id', existingEntry.id)
UpdateMoodRow(uid, id, rating, refl) ==
    IF MoodRatingCheck(rating)
    THEN {IF r.id = id /\ MoodPolicy(uid, r)
          THEN [r EXCEPT !.mood_rating = rating, !.reflection = refl]
          ELSE r : r \in mood_entries}
    ELSE mood_entries

\* the error of that update: the CHECK is evaluated on the rows the update
\* reaches
UpdateMoodError(uid, id, rating) ==
    IF (\E r \in mood_entries : r.id = id /\ MoodPolicy(uid, r))
       /\ ~MoodRatingCheck(rating)
    THEN CheckViolation ELSE ""

ExecSubmitUpdate(c) ==
    /\ c.op = "submitMoodEntry" /\ c.pc = "update" /\ c.ph = "sent"
    /\ \E fail \in BOOLEAN :
         LET rating == CHOOSE v \in c.todayMood : TRUE
             bad == fail \/ UpdateMoodError(user[c.s], c.target, rating) # ""
         IN /\ mood_entries' =
                 IF bad THEN mood_entries
                 ELSE UpdateMoodRow(user[c.s], c.target, rating,
                                    ReflectionOrNull(c.reflection))
            /\ calls' = (calls \ {c}) \cup {Reply(c, bad, <<>>)}
    /\ UNCHANGED <<now, auth, habits, habit_completions, challenges,
                   challenge_participants, profiles, auth_users, objects, nextId,
                   tab, mountId, view, toast, nActions>>

\* submitMoodEntry after the write: toast, fetchMoodEntries(), setSubmitting(false)
DoneSubmitWrite(c) ==
    /\ c.op = "submitMoodEntry" /\ c.pc \in {"insert", "update"} /\ c.ph = "replied"
    /\ toast' = [toast EXCEPT ![c.s] =
         IF c.err THEN ErrorToast("Error saving mood entry")
         ELSE IF c.pc = "update" THEN SuccessToast("Mood updated successfully")
         ELSE SuccessToast("Mood recorded successfully")]
    /\ calls' = (calls \ {c}) \cup
         (IF c.err THEN {}
          ELSE {[id |-> c.id, s |-> c.s, m |-> c.m, op |-> "fetchMoodEntries",
                 ph |-> "sent"]})
    /\ view' = IF Mounted(c) THEN [view EXCEPT ![c.s].submitting = FALSE] ELSE view
    /\ UNCHANGED <<now, auth, db, tab, mountId, nActions>>

MoodStep(s) ==
    /\ tab[s] = "mood"
    /\ \/ \E v \in ClickedMoods(s) : SelectMood(s, v)
       \/ \E t \in ReflectionTexts : EditReflection(s, t)
       \/ SubmitMoodEntry(s)

MoodCallStep(c) ==
    \/ ExecFetchMoodEntries(c)
    \/ DoneFetchMoodEntries(c)
    \/ ExecCheckTodayMood(c)
    \/ DoneCheckTodayMood(c)
    \/ ExecSubmitCheck(c)
    \/ DoneSubmitCheck(c)
    \/ ExecSubmitInsert(c)
    \/ ExecSubmitUpdate(c)
    \/ DoneSubmitWrite(c)

(* --------------------- backend: habits, completions ------------------- *)
\* policy "Users can manage own habits": FOR ALL USING (auth.uid() = user_id)
HabitPolicy(uid, row) == uid = row.user_id

\* policy "Users can manage own completions": FOR ALL USING (auth.uid() = user_id)
CompletionPolicy(uid, row) == uid = row.user_id

\* habit_completions.mood_rating: CHECK (mood_rating >= 1 AND mood_rating <= 5),
\* nullable
CompletionRatingCheck(rating) == \A v \in rating : v >= 1 /\ v <= 5

\* habit_id uuid REFERENCES habits(id)
HabitExists(id) == \E h \in habits : h.id = id

RECURSIVE SeqById(_)
SeqById(S) ==
    IF S = {} THEN <<>>
    ELSE LET mn == CHOOSE r \in S : \A q \in S : r.id <= q.id
         IN <<mn>> \o SeqById(S \ {mn})

\* the embedded resource habit_completions ( completed_at, mood_rating )
EmbedCompletions(uid, h) ==
    LET own == SeqById({c \in habit_completions :
                           c.habit_id = h.id /\ CompletionPolicy(uid, c)})
    IN [i \in 1..Len(own) |->
           [completed_at |-> own[i].completed_at, mood_rating |-> own[i].mood_rating]]

\* .from('habits').select('*, habit_completions (...)').eq('user_id', uid)
\*   .eq('is_active', true).order('created_at', { ascending: false })
ActiveHabitsOf(uid) ==
    {h \in habits : HabitPolicy(uid, h) /\ h.user_id = uid /\ h.is_active}

SelectHabits(uid) ==
    LET rows == OrderByCreatedDesc(ActiveHabitsOf(uid))
    IN [i \in 1..Len(rows) |->
           rows[i] @@ [habit_completions |-> EmbedCompletions(uid, rows[i])]]

\* .from('habit_completions').insert({ habit_id, user_id, completed_at })
InsertCompletion(uid, row) ==
    IF CompletionPolicy(uid, row) /\ HabitExists(row.habit_id)
       /\ CompletionRatingCheck(row.mood_rating)
    THEN habit_completions \cup {row}
    ELSE habit_completions

\* a delete that removes the row
SoftDeleteHabitRemovesRow(uid, id) ==
    {h \in habits : ~(h.id = id /\ HabitPolicy(uid, h))}

\* .from('habits').update({ is_active: false }).eq('id', habitId)
SoftDeleteHabit(uid, id) ==
    {IF h.id = id /\ HabitPolicy(uid, h) THEN [h EXCEPT !.is_active = FALSE] ELSE h :
        h \in habits}

\* .from('habits').update(habitData).eq('id', editHabit.id)
UpdateHabit(uid, id, data) ==
    {IF h.id = id /\ HabitPolicy(uid, h) /\ HabitPolicy(uid, data)
     THEN [h EXCEPT !.user_id = data.user_id, !.title = data.title,
                    !.target_count = data.target_count]
     ELSE h : h \in habits}

\* .from('habits').insert(rows): one statement, all rows or none
InsertHabits(uid, rows) ==
    IF \A r \in rows : HabitPolicy(uid, r) THEN habits \cup rows ELSE habits

\* a new habits row from the inserted columns: id, is_active and created_at
\* take their defaults
HabitRow(id, data) ==
    [id |-> id, user_id |-> data.user_id, title |-> data.title,
     target_count |-> data.target_count, is_active |-> TRUE, created_at |-> now]

(* ------------------- HabitsManager, CreateHabitModal ------------------ *)
\* the titles the user is taken to type
TypedTitles == {"Read 20 pages"}

DefaultHabitForm == [title |-> "", targetCount |-> 1]

\* selectedHabit keeps the fields of the habit that CreateHabitModal reads;
\* selectedShown tells whether it is an object of the habits array shown (the
\* rows of a refetch are new objects)
HabitsInitView ==
    [habits |-> <<>>, loading |-> TRUE, showCreateModal |-> FALSE,
     selectedHabit |-> None, selectedShown |-> FALSE, modalLoading |-> FALSE,
     formData |-> DefaultHabitForm]

\* useEffect: fetchHabits()
HabitsMountCalls(s, m) ==
    {[id |-> FreeCallId, s |-> s, m |-> m, op |-> "fetchHabits", ph |-> "sent"]}

\* the list and the modal are rendered once loading is false
HabitsShown(s) == tab[s] = "habits" /\ ~view[s].loading

\* isCompletedToday: reads habit.completions, which the rows of fetchHabits
\* (they carry habit_completions) do not have
isCompletedToday(habit) ==
    IF "completions" \notin DOMAIN habit THEN FALSE
    ELSE \E i \in 1..Len(habit.completions) :
            Today(habit.completions[i].completed_at) = Today(now)

\* "Add Habit": setShowCreateModal(true)
ClickAddHabit(s) ==
    /\ HabitsShown(s)
    /\ view' = [view EXCEPT ![s].showCreateModal = TRUE]
    /\ UNCHANGED <<now, auth, db, tab, mountId, toast, calls, nActions>>

\* the edit icon: setSelectedHabit(habit); when editHabit is another object
\* than before, the modal's effect copies it into formData
ClickEditHabit(s, i) ==
    /\ HabitsShown(s) /\ i \in 1..Len(view[s].habits)
    /\ LET habit == [id |-> view[s].habits[i].id,
                     title |-> view[s].habits[i].title,
                     target_count |-> view[s].habits[i].target_count]
           same == view[s].selectedShown /\ view[s].selectedHabit = Some(habit)
       IN view' = [view EXCEPT
                     ![s].selectedHabit = Some(habit),
                     ![s].selectedShown = TRUE,
                     ![s].formData = IF same THEN @
                                     ELSE [title |-> habit.title,
                                           targetCount |-> habit.target_count]]
    /\ UNCHANGED <<now, auth, db, tab, mountId, toast, calls, nActions>>

\* onClose: setShowCreateModal(false)
CloseHabitModal(s) ==
    /\ HabitsShown(s) /\ view[s].showCreateModal
    /\ view' = [view EXCEPT ![s].showCreateModal = FALSE]
    /\ UNCHANGED <<now, auth, db, tab, mountId, toast, calls, nActions>>

\* the title input: setFormData({ ...formData, title })
TypeHabitTitle(s, t) ==
    /\ HabitsShown(s) /\ view[s].showCreateModal
    /\ view' = [view EXCEPT ![s].formData.title = t]
    /\ UNCHANGED <<now, auth, db, tab, mountId, toast, calls, nActions>>

\* CreateHabitModal.handleSubmit up to its await (title is a required input,
\* the submit button is disabled while loading)
HandleSubmitHabit(s) ==
    /\ HabitsShown(s) /\ view[s].showCreateModal
    /\ ~view[s].modalLoading /\ view[s].formData.title # ""
    /\ nActions < MaxActions
    /\ nActions' = nActions + 1
    /\ view' = [view EXCEPT ![s].modalLoading = TRUE]
    /\ calls' = calls \cup
         {NewCall(FreeCallId, s, "handleSubmitHabit",
                  [pc |-> IF view[s].selectedHabit = None THEN "insert" ELSE "update",
                   editHabit |-> {h.id : h \in view[s].selectedHabit},
                   habitData |-> [user_id |-> user[s],
                                  title |-> view[s].formData.title,
                                  target_count |-> view[s].formData.targetCount]])}
    /\ UNCHANGED <<now, auth, db, tab, mountId, toast>>

\* "Mark Done": disabled={isCompletedToday(habit)}
CompleteHabit(s, i) ==
    /\ HabitsShown(s) /\ i \in 1..Len(view[s].habits)
    /\ ~isCompletedToday(view[s].habits[i])
    /\ nActions < MaxActions
    /\ nActions' = nActions + 1
    /\ calls' = calls \cup
         {NewCall(FreeCallId, s, "completeHabit",
                  [habitId |-> view[s].habits[i].id, completed_at |-> now])}
    /\ UNCHANGED <<now, auth, db, tab, mountId, view, toast>>

\* the trash icon
DeleteHabit(s, i) ==
    /\ HabitsShown(s) /\ i \in 1..Len(view[s].habits)
    /\ nActions < MaxActions
    /\ nActions' = nActions + 1
    /\ calls' = calls \cup
         {NewCall(FreeCallId, s, "deleteHabit", [habitId |-> view[s].habits[i].id])}
    /\ UNCHANGED <<now, auth, db, tab, mountId, view, toast>>

\* the backend runs the select of fetchHabits
ExecFetchHabits(c) ==
    /\ c.op = "fetchHabits" /\ c.ph = "sent"
    /\ \E fail \in BOOLEAN :
         calls' = (calls \ {c}) \cup
           {IF fail THEN Reply(c, TRUE, <<>>)
            ELSE Reply(c, FALSE, SelectHabits(user[c.s]))}
    /\ UNCHANGED <<now, auth, db, tab, mountId, view, toast, nActions>>

\* fetchHabits after its await
FetchHabitsView(c, v) ==
    [v EXCEPT !.habits = IF c.err THEN @ ELSE c.rows,
              !.selectedShown = IF c.err THEN @ ELSE FALSE,
              !.loading = FALSE]

FetchHabitsToast(c, t) == IF c.err THEN ErrorToast("Error fetching habits") ELSE t

DoneFetchHabits(c) ==
    /\ c.op = "fetchHabits" /\ c.ph = "replied"
    /\ calls' = calls \ {c}
    /\ toast' = [toast EXCEPT ![c.s] = FetchHabitsToast(c, @)]
    /\ view' = IF Mounted(c) THEN [view EXCEPT ![c.s] = FetchHabitsView(c, @)]
               ELSE view
    /\ UNCHANGED <<now, auth, db, tab, mountId, nActions>>

\* the backend runs the insert of completeHabit
ExecCompleteHabit(c) ==
    /\ c.op = "completeHabit" /\ c.ph = "sent"
    /\ \E fail \in BOOLEAN :
         LET row == [id |-> nextId, habit_id |-> c.habitId, user_id |-> user[c.s],
                     completed_at |-> c.completed_at, mood_rating |-> None,
                     proof_image_url |-> None]
             after == IF fail THEN habit_completions
                      ELSE InsertCompletion(user[c.s], row)
         IN /\ habit_completions' = after
            /\ nextId' = IF after = habit_completions THEN nextId ELSE nextId + 1
            /\ calls' = (calls \ {c}) \cup {Reply(c, after = habit_completions, <<>>)}
    /\ UNCHANGED <<now, auth, habits, challenges, challenge_participants,
                   mood_entries, profiles, auth_users, objects, tab, mountId, view, toast,
                   nActions>>

\* the backend runs the update of deleteHabit
ExecDeleteHabit(c) ==
    /\ c.op = "deleteHabit" /\ c.ph = "sent"
    /\ \E fail \in BOOLEAN :
         /\ habits' = IF fail THEN habits ELSE SoftDeleteHabit(user[c.s], c.habitId)
         /\ calls' = (calls \ {c}) \cup {Reply(c, fail, <<>>)}
    /\ UNCHANGED <<now, auth, habit_completions, challenges, challenge_participants,
                   mood_entries, profiles, auth_users, objects, nextId, tab, mountId, view,
                   toast, nActions>>

\* a handler that refetches whatever the write returned
AfterHabitWriteAlways(c) ==
    {[id |-> c.id, s |-> c.s, m |-> c.m, op |-> "fetchHabits", ph |-> "sent"]}

\* what a HabitsManager handler issues after its write: fetchHabits() on
\* success, nothing on error
AfterHabitWrite(c) ==
    IF c.err THEN {}
    ELSE {[id |-> c.id, s |-> c.s, m |-> c.m, op |-> "fetchHabits", ph |-> "sent"]}

HabitWriteToast(c) ==
    IF c.op = "completeHabit"
    THEN (IF c.err THEN ErrorToast("Error completing habit")
          ELSE SuccessToast("Habit completed!"))
    ELSE (IF c.err THEN ErrorToast("Error deleting habit")
          ELSE SuccessToast("Habit deleted successfully"))

\* completeHabit and deleteHabit after their await
DoneHabitWrite(c) ==
    /\ c.op \in {"completeHabit", "deleteHabit"} /\ c.ph = "replied"
    /\ toast' = [toast EXCEPT ![c.s] = HabitWriteToast(c)]
    /\ calls' = (calls \ {c}) \cup AfterHabitWrite(c)
    /\ UNCHANGED <<now, auth, db, tab, mountId, view, nActions>>

\* the backend runs the insert or the update of CreateHabitModal.handleSubmit
ExecSubmitHabit(c) ==
    /\ c.op = "handleSubmitHabit" /\ c.ph = "sent"
    /\ \E fail \in BOOLEAN :
         LET after ==
               IF fail THEN habits
               ELSE IF c.pc = "insert"
               THEN InsertHabits(user[c.s], {HabitRow(nextId, c.habitData)})
               ELSE UpdateHabit(user[c.s], CHOOSE id \in c.editHabit : TRUE,
                                c.habitData)
         IN /\ habits' = after
            /\ nextId' = IF c.pc = "insert" /\ after # habits THEN nextId + 1
                         ELSE nextId
            /\ calls' = (calls \ {c}) \cup
                 {Reply(c, fail \/ (c.pc = "insert" /\ after = habits), <<>>)}
    /\ UNCHANGED <<now, auth, habit_completions, challenges, challenge_participants,
                   mood_entries, profiles, auth_users, objects, tab, mountId, view, toast,
                   nActions>>

SubmitHabitToast(c) ==
    IF c.err THEN ErrorToast("Error saving habit")
    ELSE IF c.pc = "update" THEN SuccessToast("Habit updated successfully")
    ELSE SuccessToast("Habit created successfully")

\* a handler without its finally block
SubmitHabitViewWithoutFinally(c, v) ==
    IF c.err THEN v
    ELSE [v EXCEPT !.showCreateModal = FALSE, !.formData = DefaultHabitForm,
                   !.modalLoading = FALSE]

\* onSuccess(); onClose(); setFormData(defaults) on success; setLoading(false)
SubmitHabitView(c, v) ==
    IF c.err THEN [v EXCEPT !.modalLoading = FALSE]
    ELSE [v EXCEPT !.showCreateModal = FALSE, !.formData = DefaultHabitForm,
                   !.modalLoading = FALSE]

\* CreateHabitModal.handleSubmit after its await
DoneSubmitHabit(c) ==
    /\ c.op = "handleSubmitHabit" /\ c.ph = "replied"
    /\ toast' = [toast EXCEPT ![c.s] = SubmitHabitToast(c)]
    /\ calls' = (calls \ {c}) \cup AfterHabitWrite(c)
    /\ view' = IF Mounted(c) THEN [view EXCEPT ![c.s] = SubmitHabitView(c, @)]
               ELSE view
    /\ UNCHANGED <<now, auth, db, tab, mountId, nActions>>

HabitsStep(s) ==
    /\ tab[s] = "habits"
    /\ \/ ClickAddHabit(s)
       \/ \E i \in 1..Len(view[s].habits) : ClickEditHabit(s, i)
       \/ CloseHabitModal(s)
       \/ \E t \in TypedTitles : TypeHabitTitle(s, t)
       \/ HandleSubmitHabit(s)
       \/ \E i \in 1..Len(view[s].habits) : CompleteHabit(s, i)
       \/ \E i \in 1..Len(view[s].habits) : DeleteHabit(s, i)

HabitsCallStep(c) ==
    \/ ExecFetchHabits(c)
    \/ DoneFetchHabits(c)
    \/ ExecCompleteHabit(c)
    \/ ExecDeleteHabit(c)
    \/ DoneHabitWrite(c)
    \/ ExecSubmitHabit(c)
    \/ DoneSubmitHabit(c)

(* -------------------- backend: challenges, participants --------------- *)
\* policy "Anyone can view active challenges": USING (is_active = true)
ChallengeSelectPolicy(uid, row) == row.is_active

\* policy "Users can create challenges": WITH CHECK (auth.uid() = creator_id)
ChallengeInsertPolicy(uid, row) == uid = row.creator_id

\* policy "Users can view challenge participants": USING (true)
ParticipantSelectPolicy(uid, row) == TRUE

\* policy "Users can join challenges": WITH CHECK (auth.uid() = user_id)
ParticipantInsertPolicy(uid, row) == uid = row.user_id

\* policy "Users can leave challenges": USING (auth.uid() = user_id)
ParticipantDeletePolicy(uid, row) == uid = row.user_id

\* the table without its unique constraint
ParticipantUniqueDropped(row) == TRUE

\* UNIQUE(challenge_id, user_id)
ParticipantUnique(row) ==
    \A p \in challenge_participants :
        ~(p.challenge_id = row.challenge_id /\ p.user_id = row.user_id)

\* challenge_id uuid REFERENCES challenges(id)
ChallengeExists(id) == \E ch \in challenges : ch.id = id

\* the error of an insert into challenge_participants, "" when it is accepted
JoinError(uid, row) ==
    IF ~ParticipantInsertPolicy(uid, row)
    THEN RlsViolation
    ELSE IF ~ChallengeExists(row.challenge_id)
    THEN "violates foreign key constraint"
    ELSE IF ~ParticipantUnique(row)
    THEN KeyViolation
    ELSE ""

\* .from('challenge_participants').insert({ challenge_id, user_id })
InsertParticipant(uid, row) ==
    IF ParticipantInsertPolicy(uid, row) /\ ChallengeExists(row.challenge_id)
       /\ ParticipantUnique(row)
    THEN challenge_participants \cup {row}
    ELSE challenge_participants

\* a delete that filters on the challenge only, under a policy USING (true)
DeleteParticipantOfAnyUser(uid, challengeId, userId) ==
    {p \in challenge_participants : p.challenge_id # challengeId}

\* .from('challenge_participants').delete().eq('challenge_id', id)
\*   .eq('user_id', uid)
DeleteParticipant(uid, challengeId, userId) ==
    {p \in challenge_participants :
        ~(ParticipantDeletePolicy(uid, p) /\ p.challenge_id = challengeId
          /\ p.user_id = userId)}

\* .from('challenges').select(...).eq('is_active', true)
\*   .order('created_at', { ascending: false })
SelectChallenges(uid) ==
    OrderByCreatedDesc({ch \in challenges :
                           ChallengeSelectPolicy(uid, ch) /\ ch.is_active})

\* .from('challenge_participants').select('challenge_id').eq('user_id', uid),
\* then data.map(p => p.challenge_id)
SelectMyParticipations(uid) ==
    LET rows == SeqById({p \in challenge_participants :
                            ParticipantSelectPolicy(uid, p) /\ p.user_id = uid})
    IN [i \in 1..Len(rows) |-> rows[i].challenge_id]

\* .from('challenges').insert(challengeData)
InsertChallenge(uid, row) ==
    IF ChallengeInsertPolicy(uid, row) THEN challenges \cup {row} ELSE challenges

(* ------------------- Challenges, CreateChallengeModal ----------------- *)
\* what the user is taken to type in the create form
TypedChallengeTitles == {"30 days of code"}
TypedMaxParticipants == {"", "2"}

\* Number(formData.maxParticipants) on the strings of TypedMaxParticipants
Number(str) == CASE str = "2" -> 2

\* formData.maxParticipants ? Number(formData.maxParticipants) : null
MaxParticipantsOf(str) == IF str = "" THEN None ELSE Some(Number(str))

DefaultChallengeForm == [title |-> "", maxParticipants |-> ""]

ChallengesInitView ==
    [challenges |-> <<>>, myParticipations |-> <<>>, loading |-> TRUE,
     showCreateModal |-> FALSE, modalLoading |-> FALSE,
     formData |-> DefaultChallengeForm]

\* useEffect: fetchChallenges(); fetchMyParticipations()
ChallengesMountCalls(s, m) ==
    LET i1 == FreeCallId
        i2 == CHOOSE i \in 1..(Cardinality(calls) + 2) :
                  i # i1 /\ \A c \in calls : c.id # i
    IN {[id |-> i1, s |-> s, m |-> m, op |-> "fetchChallenges", ph |-> "sent"],
        [id |-> i2, s |-> s, m |-> m, op |-> "fetchMyParticipations", ph |-> "sent"]}

ChallengesShown(s) == tab[s] = "challenges" /\ ~view[s].loading

\* myParticipations.includes(challengeId)
isParticipating(v, challengeId) ==
    \E i \in 1..Len(v.myParticipations) : v.myParticipations[i] = challengeId

\* "Join Challenge", rendered when not isParticipating
JoinChallenge(s, i) ==
    /\ ChallengesShown(s) /\ i \in 1..Len(view[s].challenges)
    /\ ~isParticipating(view[s], view[s].challenges[i].id)
    /\ nActions < MaxActions
    /\ nActions' = nActions + 1
    /\ calls' = calls \cup
         {NewCall(FreeCallId, s, "joinChallenge",
                  [challengeId |-> view[s].challenges[i].id])}
    /\ UNCHANGED <<now, auth, db, tab, mountId, view, toast>>

\* "Leave Challenge", rendered when isParticipating
LeaveChallenge(s, i) ==
    /\ ChallengesShown(s) /\ i \in 1..Len(view[s].challenges)
    /\ isParticipating(view[s], view[s].challenges[i].id)
    /\ nActions < MaxActions
    /\ nActions' = nActions + 1
    /\ calls' = calls \cup
         {NewCall(FreeCallId, s, "leaveChallenge",
                  [challengeId |-> view[s].challenges[i].id])}
    /\ UNCHANGED <<now, auth, db, tab, mountId, view, toast>>

\* "Create Challenge": setShowCreateModal(true)
ClickCreateChallenge(s) ==
    /\ ChallengesShown(s) /\ ~view[s].showCreateModal
    /\ view' = [view EXCEPT ![s].showCreateModal = TRUE]
    /\ UNCHANGED <<now, auth, db, tab, mountId, toast, calls, nActions>>

\* the form inputs: setFormData({ ...formData, title, maxParticipants })
TypeChallengeForm(s, t, mp) ==
    /\ ChallengesShown(s) /\ view[s].showCreateModal
    /\ view' = [view EXCEPT ![s].formData = [title |-> t, maxParticipants |-> mp]]
    /\ UNCHANGED <<now, auth, db, tab, mountId, toast, calls, nActions>>

\* CreateChallengeModal.handleSubmit up to its await
HandleSubmitChallenge(s) ==
    /\ ChallengesShown(s) /\ view[s].showCreateModal
    /\ ~view[s].modalLoading /\ view[s].formData.title # ""
    /\ nActions < MaxActions
    /\ nActions' = nActions + 1
    /\ view' = [view EXCEPT ![s].modalLoading = TRUE]
    /\ calls' = calls \cup
         {NewCall(FreeCallId, s, "handleSubmitChallenge",
                  [challengeData |->
                     [title |-> view[s].formData.title, creator_id |-> user[s],
                      max_participants |->
                          MaxParticipantsOf(view[s].formData.maxParticipants),
                      is_active |-> TRUE]])}
    /\ UNCHANGED <<now, auth, db, tab, mountId, toast>>

\* the backend runs the select of fetchChallenges
ExecFetchChallenges(c) ==
    /\ c.op = "fetchChallenges" /\ c.ph = "sent"
    /\ \E fail \in BOOLEAN :
         calls' = (calls \ {c}) \cup
           {IF fail THEN Reply(c, TRUE, <<>>)
            ELSE Reply(c, FALSE, SelectChallenges(user[c.s]))}
    /\ UNCHANGED <<now, auth, db, tab, mountId, view, toast, nActions>>

FetchChallengesView(c, v) ==
    [v EXCEPT !.challenges = IF c.err THEN @ ELSE c.rows, !.loading = FALSE]

\* fetchChallenges after its await
DoneFetchChallenges(c) ==
    /\ c.op = "fetchChallenges" /\ c.ph = "replied"
    /\ calls' = calls \ {c}
    /\ toast' = [toast EXCEPT ![c.s] =
                   IF c.err THEN ErrorToast("Error fetching challenges") ELSE @]
    /\ view' = IF Mounted(c) THEN [view EXCEPT ![c.s] = FetchChallengesView(c, @)]
               ELSE view
    /\ UNCHANGED <<now, auth, db, tab, mountId, nActions>>

\* the backend runs the select of fetchMyParticipations
ExecFetchMyParticipations(c) ==
    /\ c.op = "fetchMyParticipations" /\ c.ph = "sent"
    /\ \E fail \in BOOLEAN :
         calls' = (calls \ {c}) \cup
           {IF fail THEN Reply(c, TRUE, <<>>)
            ELSE Reply(c, FALSE, SelectMyParticipations(user[c.s]))}
    /\ UNCHANGED <<now, auth, db, tab, mountId, view, toast, nActions>>

\* fetchMyParticipations after its await: console.error on error
DoneFetchMyParticipations(c) ==
    /\ c.op = "fetchMyParticipations" /\ c.ph = "replied"
    /\ calls' = calls \ {c}
    /\ view' = IF Mounted(c) /\ ~c.err
               THEN [view EXCEPT ![c.s].myParticipations = c.rows]
               ELSE view
    /\ UNCHANGED <<now, auth, db, tab, mountId, toast, nActions>>

\* the backend runs the insert of joinChallenge
ExecJoinChallenge(c) ==
    /\ c.op = "joinChallenge" /\ c.ph = "sent"
    /\ \E fail \in BOOLEAN :
         LET row == [id |-> nextId, challenge_id |-> c.challengeId,
                     user_id |-> user[c.s], joined_at |-> now]
             after == IF fail THEN challenge_participants
                      ELSE InsertParticipant(user[c.s], row)
         IN /\ challenge_participants' = after
            /\ nextId' = IF after = challenge_participants THEN nextId
                         ELSE nextId + 1
            /\ calls' = (calls \ {c}) \cup
                 {Reply(c, after = challenge_participants, <<>>) @@
                  [message |-> IF fail THEN FetchFailed
                               ELSE JoinError(user[c.s], row)]}
    /\ UNCHANGED <<now, auth, habits, habit_completions, challenges, mood_entries,
                   profiles, auth_users, objects, tab, mountId, view, toast, nActions>>

\* the backend runs the delete of leaveChallenge
ExecLeaveChallenge(c) ==
    /\ c.op = "leaveChallenge" /\ c.ph = "sent"
    /\ \E fail \in BOOLEAN :
         /\ challenge_participants' =
              IF fail THEN challenge_participants
              ELSE DeleteParticipant(user[c.s], c.challengeId, user[c.s])
         /\ calls' = (calls \ {c}) \cup {Reply(c, fail, <<>>)}
    /\ UNCHANGED <<now, auth, habits, habit_completions, challenges, mood_entries,
                   profiles, auth_users, objects, nextId, tab, mountId, view, toast, nActions>>

\* what joinChallenge and leaveChallenge issue after their write:
\* fetchMyParticipations() on success, nothing on error
AfterParticipation(c) ==
    IF c.err THEN {}
    ELSE {[id |-> c.id, s |-> c.s, m |-> c.m, op |-> "fetchMyParticipations",
           ph |-> "sent"]}

ParticipationToast(c) ==
    IF c.op = "joinChallenge"
    THEN (IF c.err THEN ErrorToast("Error joining challenge")
          ELSE SuccessToast("Joined challenge successfully!"))
    ELSE (IF c.err THEN ErrorToast("Error leaving challenge")
          ELSE SuccessToast("Left challenge successfully"))

\* joinChallenge and leaveChallenge after their await
DoneParticipation(c) ==
    /\ c.op \in {"joinChallenge", "leaveChallenge"} /\ c.ph = "replied"
    /\ toast' = [toast EXCEPT ![c.s] = ParticipationToast(c)]
    /\ calls' = (calls \ {c}) \cup AfterParticipation(c)
    /\ UNCHANGED <<now, auth, db, tab, mountId, view, nActions>>

\* the backend runs the insert of CreateChallengeModal.handleSubmit
ExecSubmitChallenge(c) ==
    /\ c.op = "handleSubmitChallenge" /\ c.ph = "sent"
    /\ \E fail \in BOOLEAN :
         LET row == [id |-> nextId, created_at |-> now] @@ c.challengeData
             after == IF fail THEN challenges ELSE InsertChallenge(user[c.s], row)
         IN /\ challenges' = after
            /\ nextId' = IF after = challenges THEN nextId ELSE nextId + 1
            /\ calls' = (calls \ {c}) \cup {Reply(c, after = challenges, <<>>)}
    /\ UNCHANGED <<now, auth, habits, habit_completions, challenge_participants,
                   mood_entries, profiles, auth_users, objects, tab, mountId, view, toast,
                   nActions>>

\* onSuccess is fetchChallenges
AfterSubmitChallenge(c) ==
    IF c.err THEN {}
    ELSE {[id |-> c.id, s |-> c.s, m |-> c.m, op |-> "fetchChallenges",
           ph |-> "sent"]}

SubmitChallengeView(c, v) ==
    IF c.err THEN [v EXCEPT !.modalLoading = FALSE]
    ELSE [v EXCEPT !.showCreateModal = FALSE, !.formData = DefaultChallengeForm,
                   !.modalLoading = FALSE]

\* CreateChallengeModal.handleSubmit after its await
DoneSubmitChallenge(c) ==
    /\ c.op = "handleSubmitChallenge" /\ c.ph = "replied"
    /\ toast' = [toast EXCEPT ![c.s] =
                   IF c.err THEN ErrorToast("Error creating challenge")
                   ELSE SuccessToast("Challenge created successfully!")]
    /\ calls' = (calls \ {c}) \cup AfterSubmitChallenge(c)
    /\ view' = IF Mounted(c) THEN [view EXCEPT ![c.s] = SubmitChallengeView(c, @)]
               ELSE view
    /\ UNCHANGED <<now, auth, db, tab, mountId, nActions>>

ChallengesStep(s) ==
    /\ tab[s] = "challenges"
    /\ \/ \E i \in 1..Len(view[s].challenges) : JoinChallenge(s, i)
       \/ \E i \in 1..Len(view[s].challenges) : LeaveChallenge(s, i)
       \/ ClickCreateChallenge(s)
       \/ \E t \in TypedChallengeTitles, mp \in TypedMaxParticipants :
              TypeChallengeForm(s, t, mp)
       \/ HandleSubmitChallenge(s)

\* the calls of joinChallenge, leaveChallenge and fetchMyParticipations
ParticipationCallStep(c) ==
    \/ ExecFetchMyParticipations(c)
    \/ DoneFetchMyParticipations(c)
    \/ ExecJoinChallenge(c)
    \/ ExecLeaveChallenge(c)
    \/ DoneParticipation(c)

ChallengesCallStep(c) ==
    \/ ParticipationCallStep(c)
    \/ ExecFetchChallenges(c)
    \/ DoneFetchChallenges(c)
    \/ ExecSubmitChallenge(c)
    \/ DoneSubmitChallenge(c)

(* ------------------------------ Templates ----------------------------- *)
\* the habit titles of the templates array, by template id
TemplateHabits ==
    [t \in {"exam-prep", "coding-sprint", "balanced-student", "productivity-boost"} |->
        CASE t = "exam-prep" ->
               <<"Morning Study Session", "Practice Problems", "Review Notes",
                 "Mock Test">>
          [] t = "coding-sprint" ->
               <<"Daily Coding Challenge", "Project Development", "Code Review",
                 "Learn New Technology">>
          [] t = "balanced-student" ->
               <<"Morning Exercise", "Study Session", "Meditation",
                 "Social Connection">>
          [] t = "productivity-boost" ->
               <<"Morning Routine", "Deep Work Block", "Task Planning",
                 "Weekly Review">>]

\* the templates whose "Apply Template" the user is taken to click
ClickedTemplates == {"exam-prep", "coding-sprint"}

\* a map that loses the last habit of the template
HabitsToCreateButLast(uid, titles) ==
    [i \in 1..(Len(titles) - 1) |->
        [user_id |-> uid, title |-> titles[i], target_count |-> 1]]

\* template.habits.map(habit => ({ user_id: user.id, title, target_count: 1 }))
HabitsToCreate(uid, titles) ==
    [i \in 1..Len(titles) |->
        [user_id |-> uid, title |-> titles[i], target_count |-> 1]]

TemplatesInitView == [loading |-> FALSE]

\* applyTemplate up to its await; the button is disabled while loading
ApplyTemplate(s, t) ==
    /\ tab[s] = "templates" /\ ~view[s].loading
    /\ nActions < MaxActions
    /\ nActions' = nActions + 1
    /\ view' = [view EXCEPT ![s].loading = TRUE]
    /\ calls' = calls \cup
         {NewCall(FreeCallId, s, "applyTemplate",
                  [template |-> t,
                   habitsToCreate |-> HabitsToCreate(user[s], TemplateHabits[t])])}
    /\ UNCHANGED <<now, auth, db, tab, mountId, toast>>

\* the rows one insert of the array adds: consecutive ids, defaults filled in
NewHabitRows(data) == {HabitRow(nextId + i - 1, data[i]) : i \in 1..Len(data)}

\* the backend runs the insert of applyTemplate
ExecApplyTemplate(c) ==
    /\ c.op = "applyTemplate" /\ c.ph = "sent"
    /\ \E fail \in BOOLEAN :
         LET after == IF fail THEN habits
                      ELSE InsertHabits(user[c.s], NewHabitRows(c.habitsToCreate))
         IN /\ habits' = after
            /\ nextId' = IF after = habits THEN nextId
                         ELSE nextId + Len(c.habitsToCreate)
            /\ calls' = (calls \ {c}) \cup {Reply(c, after = habits, <<>>)}
    /\ UNCHANGED <<now, auth, habit_completions, challenges, challenge_participants,
                   mood_entries, profiles, auth_users, objects, tab, mountId, view, toast,
                   nActions>>

\* applyTemplate after its await: a toast and setLoading(false), no fetch
DoneApplyTemplate(c) ==
    /\ c.op = "applyTemplate" /\ c.ph = "replied"
    /\ toast' = [toast EXCEPT ![c.s] =
                   IF c.err THEN ErrorToast("Error applying template")
                   ELSE SuccessToast("template applied!")]
    /\ calls' = calls \ {c}
    /\ view' = IF Mounted(c) THEN [view EXCEPT ![c.s].loading = FALSE] ELSE view
    /\ UNCHANGED <<now, auth, db, tab, mountId, nActions>>

TemplatesStep(s) == \E t \in ClickedTemplates : ApplyTemplate(s, t)

TemplatesCallStep(c) ==
    \/ ExecApplyTemplate(c)
    \/ DoneApplyTemplate(c)

(* ------------------------------ Analytics ----------------------------- *)
TimeRanges == {"7days", "30days", "90days"}

\* timeRange === '7days' ? 7 : timeRange === '30days' ? 30 : 90
DaysOf(timeRange) ==
    IF timeRange = "7days" THEN 7 ELSE IF timeRange = "30days" THEN 30 ELSE 90

\* data?.length || 0 of a result that is null after an error
LengthOrZero(data) == IF data = None THEN 0 ELSE CHOOSE n \in data : TRUE

\* Math.round(n / d) for n >= 0, d > 0
MathRound(n, d) == (2 * n + d) \div (2 * d)

\* what fetchAnalyticsData passes to setAnalyticsData
AnalyticsData(days, habitsData, completionsData) ==
    LET totalPossible == LengthOrZero(habitsData) * days
    IN [weeklyProgressLen |-> days + 1,
        target |-> LengthOrZero(habitsData),
        completionRate |->
            IF totalPossible > 0
            THEN MathRound(LengthOrZero(completionsData) * 100, totalPossible)
            ELSE 0,
        bestStreak |-> 12,
        totalCompletions |-> LengthOrZero(completionsData)]

AnalyticsInitView ==
    [analyticsData |-> [weeklyProgressLen |-> 0, target |-> 0, completionRate |-> 0,
                        bestStreak |-> 0, totalCompletions |-> 0],
     loading |-> TRUE, timeRange |-> "7days"]

\* the first await of fetchAnalyticsData, with the timeRange of its render
FetchAnalyticsCall(id, s, m, timeRange) ==
    [id |-> id, s |-> s, m |-> m, op |-> "fetchAnalyticsData", ph |-> "sent",
     pc |-> "habits", timeRange |-> timeRange, today |-> Today(now),
     habitsData |-> None]

\* useEffect on [user, timeRange]: fetchAnalyticsData()
AnalyticsMountCalls(s, m) == {FetchAnalyticsCall(FreeCallId, s, m, "7days")}

\* the select's onChange: setTimeRange(value); the effect then fetches
SetTimeRange(s, r) ==
    /\ tab[s] = "analytics" /\ ~view[s].loading /\ r # view[s].timeRange
    /\ nActions < MaxActions
    /\ nActions' = nActions + 1
    /\ view' = [view EXCEPT ![s].timeRange = r]
    /\ calls' = calls \cup {FetchAnalyticsCall(FreeCallId, s, mountId[s], r)}
    /\ UNCHANGED <<now, auth, db, tab, mountId, toast>>

\* .from('habits').select('*').eq('user_id', uid).eq('is_active', true)
CountActiveHabits(uid) == Cardinality(ActiveHabitsOf(uid))

\* .from('habit_completions').select('*, habits(*)').eq('user_id', uid)
\*   .gte('completed_at', startDate)
CountCompletionsSince(uid, startDay) ==
    Cardinality({c \in habit_completions :
                    /\ CompletionPolicy(uid, c) /\ c.user_id = uid
                    /\ c.completed_at >= TodayStart(startDay)})

\* the backend runs the habits select of fetchAnalyticsData; the error of the
\* result is not read, data is null after one
ExecAnalyticsHabits(c) ==
    /\ c.op = "fetchAnalyticsData" /\ c.ph = "sent" /\ c.pc = "habits"
    /\ \E fail \in BOOLEAN :
         calls' = (calls \ {c}) \cup
           {[c EXCEPT !.ph = "replied",
                      !.habitsData = IF fail THEN None
                                     ELSE Some(CountActiveHabits(user[c.s]))]}
    /\ UNCHANGED <<now, auth, db, tab, mountId, view, toast, nActions>>

\* fetchAnalyticsData between its two awaits
DoneAnalyticsHabits(c) ==
    /\ c.op = "fetchAnalyticsData" /\ c.ph = "replied" /\ c.pc = "habits"
    /\ calls' = (calls \ {c}) \cup {[c EXCEPT !.ph = "sent", !.pc = "completions"]}
    /\ UNCHANGED <<now, auth, db, tab, mountId, view, toast, nActions>>

\* the backend runs the completions select of fetchAnalyticsData
ExecAnalyticsCompletions(c) ==
    /\ c.op = "fetchAnalyticsData" /\ c.ph = "sent" /\ c.pc = "completions"
    /\ \E fail \in BOOLEAN :
         calls' = (calls \ {c}) \cup
           {[c EXCEPT !.ph = "replied"] @@
            [completionsData |->
                IF fail THEN None
                ELSE Some(CountCompletionsSince(user[c.s],
                                                c.today - DaysOf(c.timeRange)))]}
    /\ UNCHANGED <<now, auth, db, tab, mountId, view, toast, nActions>>

\* a continuation that drops the result of a fetch for another timeRange
FetchAnalyticsViewIfCurrent(c, v) ==
    IF c.timeRange = v.timeRange
    THEN [v EXCEPT !.analyticsData =
                       AnalyticsData(DaysOf(c.timeRange), c.habitsData,
                                     c.completionsData),
                   !.loading = FALSE]
    ELSE [v EXCEPT !.loading = FALSE]

FetchAnalyticsView(c, v) ==
    [v EXCEPT !.analyticsData =
                  AnalyticsData(DaysOf(c.timeRange), c.habitsData, c.completionsData),
              !.loading = FALSE]

\* fetchAnalyticsData after its second await: setAnalyticsData, setLoading(false)
DoneAnalyticsCompletions(c) ==
    /\ c.op = "fetchAnalyticsData" /\ c.ph = "replied" /\ c.pc = "completions"
    /\ calls' = calls \ {c}
    /\ view' = IF Mounted(c) THEN [view EXCEPT ![c.s] = FetchAnalyticsView(c, @)]
               ELSE view
    /\ UNCHANGED <<now, auth, db, tab, mountId, toast, nActions>>

AnalyticsStep(s) == \E r \in TimeRanges : SetTimeRange(s, r)

AnalyticsCallStep(c) ==
    \/ ExecAnalyticsHabits(c)
    \/ DoneAnalyticsHabits(c)
    \/ ExecAnalyticsCompletions(c)
    \/ DoneAnalyticsCompletions(c)

(* --------------------------- backend: profiles ------------------------ *)
\* year_of_study integer CHECK (year_of_study >= 1 AND year_of_study <= 4),
\* nullable
YearOfStudyCheck(year) == \A v \in year : v >= 1 /\ v <= 4

\* policy "Users can insert own profile": WITH CHECK (auth.uid() = id)
ProfileInsertPolicy(uid, row) == uid = row.id

\* policy "Users can update own profile": USING (auth.uid() = id)
ProfileUpdatePolicy(uid, row) == uid = row.id

\* id uuid PRIMARY KEY
ProfileKeyFree(id) == \A p \in profiles : p.id # id

InsertProfileError(uid, row) ==
    IF ~ProfileInsertPolicy(uid, row) THEN RlsViolation
    ELSE IF ~ProfileKeyFree(row.id) THEN KeyViolation
    ELSE IF ~YearOfStudyCheck(row.year_of_study) THEN CheckViolation
    ELSE ""

InsertProfile(uid, row) ==
    IF InsertProfileError(uid, row) = "" THEN profiles \cup {row} ELSE profiles

UpdateProfileError(uid, id, year) ==
    IF (\E p \in profiles : p.id = id /\ ProfileUpdatePolicy(uid, p))
       /\ ~YearOfStudyCheck(year)
    THEN CheckViolation ELSE ""

UpdateProfile(uid, id, year) ==
    IF YearOfStudyCheck(year)
    THEN {IF p.id = id /\ ProfileUpdatePolicy(uid, p)
          THEN [p EXCEPT !.year_of_study = year] ELSE p : p \in profiles}
    ELSE profiles

\* username text UNIQUE: null is not a duplicate of null
UsernameFree(username) ==
    username = None \/ \A p \in profiles : p.username # username

\* trigger on_auth_user_created: handle_new_user() is SECURITY DEFINER, and
\* its EXCEPTION WHEN OTHERS branch swallows a failed insert
handle_new_user(id, username, year) ==
    IF ProfileKeyFree(id) /\ UsernameFree(username) /\ YearOfStudyCheck(year)
    THEN profiles \cup {[id |-> id, username |-> username, year_of_study |-> year]}
    ELSE profiles

\* the error of an insert into habit_completions, "" when it is accepted
InsertCompletionError(uid, row) ==
    IF ~CompletionPolicy(uid, row) THEN RlsViolation
    ELSE IF ~HabitExists(row.habit_id) THEN "violates foreign key constraint"
    ELSE IF ~CompletionRatingCheck(row.mood_rating) THEN CheckViolation
    ELSE ""

UpdateCompletionError(uid, id, rating) ==
    IF (\E r \in habit_completions : r.id = id /\ CompletionPolicy(uid, r))
       /\ ~CompletionRatingCheck(rating)
    THEN CheckViolation ELSE ""

UpdateCompletion(uid, id, rating) ==
    IF CompletionRatingCheck(rating)
    THEN {IF r.id = id /\ CompletionPolicy(uid, r)
          THEN [r EXCEPT !.mood_rating = rating] ELSE r : r \in habit_completions}
    ELSE habit_completions

InsertMoodError(uid, row) ==
    IF ~MoodPolicy(uid, row) THEN RlsViolation
    ELSE IF ~MoodRatingCheck(row.mood_rating) THEN CheckViolation
    ELSE ""

(* ------------------------------ Dashboard ----------------------------- *)
DashboardInitView ==
    [stats |-> [totalHabits |-> 0, todayCompleted |-> 0, currentStreak |-> 0,
                weeklyCompletion |-> 0],
     recentHabits |-> {}, loading |-> TRUE]

\* useEffect on [user]: fetchDashboardData(), at its first await
DashboardMountCalls(s, m) ==
    {[id |-> FreeCallId, s |-> s, m |-> m, op |-> "fetchDashboardData", ph |-> "sent",
      pc |-> "habits", today |-> 0, weekStart |-> 0, habits |-> None,
      todayCompletions |-> None, weekCompletions |-> None, recentHabitsData |-> None]}

\* startOfWeek(new Date()): the Sunday of the week of day d, day 0 being one
startOfWeek(d) == d - (d % 7)
\* endOfWeek(new Date())
endOfWeek(d) == startOfWeek(d) + 6

\* .from('habit_completions').select('*').eq('user_id', uid)
\*   .gte('completed_at', `${from}T00:00:00`).lt('completed_at', `${to}T23:59:59`)
CompletionsBetween(uid, from, to) ==
    {k \in habit_completions :
        /\ CompletionPolicy(uid, k) /\ k.user_id = uid
        /\ k.completed_at >= TodayStart(from) /\ k.completed_at < TodayEnd(to)}

\* habits with habit_completions!inner: the ids of the active habits with a
\* completion the caller can read (fewer than the 5 of .limit(5), unordered)
RecentHabits(uid) ==
    {h.id : h \in {a \in ActiveHabitsOf(uid) :
                      \E k \in habit_completions :
                          CompletionPolicy(uid, k) /\ k.habit_id = a.id}}

\* the data of the select that call c awaits; null after an error
DashboardData(c, fail) ==
    IF fail THEN None
    ELSE CASE c.pc = "habits" -> Some(CountActiveHabits(user[c.s]))
           [] c.pc = "today" ->
                Some(Cardinality(CompletionsBetween(user[c.s], c.today, c.today)))
           [] c.pc = "week" ->
                Some(Cardinality(CompletionsBetween(user[c.s], c.weekStart,
                                                    endOfWeek(c.weekStart))))
           [] c.pc = "recent" -> Some(RecentHabits(user[c.s]))

\* the backend runs the select that fetchDashboardData awaits; the error of
\* the result is not read
ExecFetchDashboard(c) ==
    /\ c.op = "fetchDashboardData" /\ c.ph = "sent"
    /\ \E fail \in BOOLEAN :
         LET data == DashboardData(c, fail)
         IN calls' = (calls \ {c}) \cup
              {CASE c.pc = "habits" -> [c EXCEPT !.ph = "replied", !.habits = data]
                 [] c.pc = "today" ->
                      [c EXCEPT !.ph = "replied", !.todayCompletions = data]
                 [] c.pc = "week" ->
                      [c EXCEPT !.ph = "replied", !.weekCompletions = data]
                 [] c.pc = "recent" ->
                      [c EXCEPT !.ph = "replied", !.recentHabitsData = data]}
    /\ UNCHANGED <<now, auth, db, tab, mountId, view, toast, nActions>>

\* a fetchDashboardData that leaves the spinner when its habits read failed
FetchDashboardViewKeepsSpinner(c, v) ==
    IF c.habits = None THEN v
    ELSE [v EXCEPT !.stats = [totalHabits |-> LengthOrZero(c.habits),
                              todayCompleted |-> LengthOrZero(c.todayCompletions),
                              currentStreak |-> 7,
                              weeklyCompletion |->
                                  MathRound(LengthOrZero(c.weekCompletions) * 100, 7)],
                   !.recentHabits = IF c.recentHabitsData = None THEN {}
                                    ELSE CHOOSE x \in c.recentHabitsData : TRUE,
                   !.loading = FALSE]

\* setStats and setRecentHabits after the last await
FetchDashboardView(c, v) ==
    [v EXCEPT !.stats = [totalHabits |-> LengthOrZero(c.habits),
                         todayCompleted |-> LengthOrZero(c.todayCompletions),
                         currentStreak |-> 7,
                         weeklyCompletion |->
                             MathRound(LengthOrZero(c.weekCompletions) * 100, 7)],
              !.recentHabits = IF c.recentHabitsData = None THEN {}
                               ELSE CHOOSE x \in c.recentHabitsData : TRUE,
              !.loading = FALSE]

\* fetchDashboardData after an await: the next select with the dates of the
\* clock then, or the setState calls and setLoading(false)
DoneFetchDashboard(c) ==
    /\ c.op = "fetchDashboardData" /\ c.ph = "replied"
    /\ IF c.pc = "recent"
       THEN /\ calls' = calls \ {c}
            /\ view' = IF Mounted(c)
                       THEN [view EXCEPT ![c.s] = FetchDashboardView(c, @)]
                       ELSE view
       ELSE /\ calls' = (calls \ {c}) \cup
                 {CASE c.pc = "habits" ->
                         [c EXCEPT !.ph = "sent", !.pc = "today", !.today = Today(now)]
                    [] c.pc = "today" ->
                         [c EXCEPT !.ph = "sent", !.pc = "week",
                                   !.weekStart = startOfWeek(Today(now))]
                    [] c.pc = "week" -> [c EXCEPT !.ph = "sent", !.pc = "recent"]}
            /\ UNCHANGED view
    /\ UNCHANGED <<now, auth, db, tab, mountId, toast, nActions>>

DashboardCallStep(c) == ExecFetchDashboard(c) \/ DoneFetchDashboard(c)

(* --------------- requests sent to the backend API directly ------------ *)
\* the values a request is taken to carry, inside and outside the ranges
SentRatings == {0, 3, 6}
SentYears == {0, 2, 5}
NewUserIds == {"u3", "u4"}
SentUsernames == {"ada"}

\* the writes of the constrained columns a signed-in client can send
WriteRequests ==
    {[op |-> "insertMood", moodRating |-> r] : r \in SentRatings}
    \cup {[op |-> "updateMood", target |-> m.id, moodRating |-> r] :
             m \in mood_entries, r \in SentRatings}
    \cup {[op |-> "insertCompletion", habitId |-> h.id, completionRating |-> r] :
             h \in habits, r \in {None} \cup {Some(v) : v \in SentRatings}}
    \cup {[op |-> "updateCompletion", target |-> k.id, completionRating |-> Some(r)] :
             k \in habit_completions, r \in SentRatings}
    \cup {[op |-> "insertProfile", year |-> y] :
             y \in {None} \cup {Some(v) : v \in SentYears}}
    \cup {[op |-> "updateProfile", year |-> Some(y)] : y \in SentYears}

\* a request with the session's token, whatever the forms of the client allow
SendWrite(s, req) ==
    /\ SignedIn(s)
    /\ nActions < MaxActions
    /\ nActions' = nActions + 1
    /\ calls' = calls \cup {NewCall(FreeCallId, s, req.op, req)}
    /\ UNCHANGED <<now, auth, db, tab, mountId, view, toast>>

\* supabase.auth.signUp with options.data.username = username and
\* options.data.year_of_study = year
SendSignUp(s, username, year) ==
    /\ tab[s] = "auth"
    /\ nActions < MaxActions
    /\ nActions' = nActions + 1
    /\ calls' = calls \cup {NewCall(FreeCallId, s, "signUp",
                            [username |-> username, year |-> year])}
    /\ UNCHANGED <<now, auth, db, tab, mountId, view, toast>>

\* the backend runs a write on mood_entries
ExecWriteMood(c) ==
    /\ c.op \in {"insertMood", "updateMood"} /\ c.ph = "sent"
    /\ \E fail \in BOOLEAN :
         LET uid == user[c.s]
             row == [id |-> nextId, user_id |-> uid, mood_rating |-> c.moodRating,
                     reflection |-> None, created_at |-> now]
             error == IF fail THEN FetchFailed
                      ELSE IF c.op = "insertMood" THEN InsertMoodError(uid, row)
                      ELSE UpdateMoodError(uid, c.target, c.moodRating)
             after == IF fail THEN mood_entries
                      ELSE IF c.op = "insertMood" THEN InsertMoodRow(uid, row)
                      ELSE UpdateMoodRow(uid, c.target, c.moodRating, None)
         IN /\ mood_entries' = after
            /\ nextId' = IF c.op = "insertMood" /\ after # mood_entries
                         THEN nextId + 1 ELSE nextId
            /\ calls' = (calls \ {c}) \cup
                 {Reply(c, error # "", <<>>) @@ [message |-> error]}
    /\ UNCHANGED <<now, auth, habits, habit_completions, challenges,
                   challenge_participants, profiles, auth_users, objects,
                   tab, mountId, view, toast, nActions>>

\* the backend runs a write on habit_completions
ExecWriteCompletion(c) ==
    /\ c.op \in {"insertCompletion", "updateCompletion"} /\ c.ph = "sent"
    /\ \E fail \in BOOLEAN :
         LET uid == user[c.s]
             row == [id |-> nextId, habit_id |-> c.habitId, user_id |-> uid,
                     completed_at |-> now, mood_rating |-> c.completionRating,
                     proof_image_url |-> None]
             error == IF fail THEN FetchFailed
                      ELSE IF c.op = "insertCompletion"
                      THEN InsertCompletionError(uid, row)
                      ELSE UpdateCompletionError(uid, c.target, c.completionRating)
             after == IF fail THEN habit_completions
                      ELSE IF c.op = "insertCompletion"
                      THEN InsertCompletion(uid, row)
                      ELSE UpdateCompletion(uid, c.target, c.completionRating)
         IN /\ habit_completions' = after
            /\ nextId' = IF c.op = "insertCompletion" /\ after # habit_completions
                         THEN nextId + 1 ELSE nextId
            /\ calls' = (calls \ {c}) \cup
                 {Reply(c, error # "", <<>>) @@ [message |-> error]}
    /\ UNCHANGED <<now, auth, habits, challenges, challenge_participants,
                   mood_entries, profiles, auth_users, objects,
                   tab, mountId, view, toast, nActions>>

\* the backend runs a write on profiles
ExecWriteProfile(c) ==
    /\ c.op \in {"insertProfile", "updateProfile"} /\ c.ph = "sent"
    /\ \E fail \in BOOLEAN :
         LET uid == user[c.s]
             row == [id |-> uid, username |-> None, year_of_study |-> c.year]
             error == IF fail THEN FetchFailed
                      ELSE IF c.op = "insertProfile" THEN InsertProfileError(uid, row)
                      ELSE UpdateProfileError(uid, uid, c.year)
             after == IF fail THEN profiles
                      ELSE IF c.op = "insertProfile" THEN InsertProfile(uid, row)
                      ELSE UpdateProfile(uid, uid, c.year)
         IN /\ profiles' = after
            /\ calls' = (calls \ {c}) \cup
                 {Reply(c, error # "", <<>>) @@ [message |-> error]}
    /\ UNCHANGED <<now, auth, habits, habit_completions, challenges,
                   challenge_participants, mood_entries, auth_users, objects,
                   nextId, tab, mountId, view, toast, nActions>>

\* the backend creates the account and its trigger the profile
ExecSignUp(c) ==
    /\ c.op = "signUp" /\ c.ph = "sent"
    /\ \E fail \in BOOLEAN :
         IF fail \/ NewUserIds \subseteq auth_users
         THEN /\ calls' = (calls \ {c}) \cup
                   {Reply(c, TRUE, <<>>) @@ [message |-> FetchFailed]}
              /\ UNCHANGED <<profiles, auth_users>>
         ELSE LET id == CHOOSE u \in NewUserIds : u \notin auth_users
              IN /\ auth_users' = auth_users \cup {id}
                 /\ profiles' = handle_new_user(id, Some(c.username), c.year)
                 /\ calls' = (calls \ {c}) \cup
                      {Reply(c, FALSE, <<>>) @@ [message |-> ""]}
    /\ UNCHANGED <<now, auth, habits, habit_completions, challenges,
                   challenge_participants, mood_entries, objects, nextId,
                   tab, mountId, view, toast, nActions>>

\* the reply of a direct request reaches no handler of the views
DoneWrite(c) ==
    /\ c.op \in {"insertMood", "updateMood", "insertCompletion", "updateCompletion",
                 "insertProfile", "updateProfile", "signUp"}
    /\ c.ph = "replied"
    /\ calls' = calls \ {c}
    /\ UNCHANGED <<now, auth, db, tab, mountId, view, toast, nActions>>

(* ---------- row level security: requests of two accounts -------------- *)
\* the tables whose policies compare a column with auth.uid(), and the two
\* tables with a select policy for every authenticated user
OwnedTables == {"habits", "habit_completions", "mood_entries", "profiles"}
SharedTables == {"challenges", "challenge_participants"}

\* policy "Users can view own profile": USING (auth.uid() = id)
ProfileSelectPolicy(uid, row) == uid = row.id

\* .from(table).select('*') without a filter: the owners of the rows that the
\* select policy of the table lets pass
SelectOwners(uid, table) ==
    CASE table = "habits" -> {r.user_id : r \in {h \in habits : HabitPolicy(uid, h)}}
      [] table = "habit_completions" ->
           {r.user_id : r \in {k \in habit_completions : CompletionPolicy(uid, k)}}
      [] table = "mood_entries" ->
           {r.user_id : r \in {m \in mood_entries : MoodPolicy(uid, m)}}
      [] table = "profiles" ->
           {r.id : r \in {p \in profiles : ProfileSelectPolicy(uid, p)}}
      [] table = "challenges" ->
           {r.creator_id : r \in {ch \in challenges : ChallengeSelectPolicy(uid, ch)}}
      [] table = "challenge_participants" ->
           {r.user_id : r \in {p \in challenge_participants :
                                  ParticipantSelectPolicy(uid, p)}}

\* the number of rows of that select
SelectCount(uid, table) ==
    CASE table = "habits" -> Cardinality({h \in habits : HabitPolicy(uid, h)})
      [] table = "habit_completions" ->
           Cardinality({k \in habit_completions : CompletionPolicy(uid, k)})
      [] table = "mood_entries" ->
           Cardinality({m \in mood_entries : MoodPolicy(uid, m)})
      [] table = "profiles" ->
           Cardinality({p \in profiles : ProfileSelectPolicy(uid, p)})
      [] table = "challenges" ->
           Cardinality({ch \in challenges : ChallengeSelectPolicy(uid, ch)})
      [] table = "challenge_participants" ->
           Cardinality({p \in challenge_participants :
                           ParticipantSelectPolicy(uid, p)})

\* .from('habits').delete().eq('id', id): the policy FOR ALL is the delete
\* policy
DeleteHabitRow(uid, id) == {h \in habits : ~(h.id = id /\ HabitPolicy(uid, h))}

\* habit_id uuid REFERENCES habits(id) ON DELETE CASCADE: the referential
\* action removes the referencing rows whatever the policies of their table
CascadeCompletions(remaining) ==
    {k \in habit_completions : \E h \in remaining : h.id = k.habit_id}

\* .from('habit_completions').delete().eq('id', id)
DeleteCompletionRow(uid, id) ==
    {k \in habit_completions : ~(k.id = id /\ CompletionPolicy(uid, k))}

\* .from('mood_entries').delete().eq('id', id)
DeleteMoodRow(uid, id) ==
    {m \in mood_entries : ~(m.id = id /\ MoodPolicy(uid, m))}

\* the requests two signed-in clients are taken to send with their tokens:
\* a select of every table, and updates and deletes that name a row by its id,
\* whoever owns it
RlsRequests ==
    {[op |-> "select", table |-> t] : t \in OwnedTables \cup SharedTables}
    \cup {[op |-> "insertCompletion", habitId |-> h.id, completionRating |-> None] :
             h \in habits}
    \cup {[op |-> "delete", table |-> "habits", target |-> h.id] : h \in habits}
    \cup {[op |-> "delete", table |-> "habit_completions", target |-> k.id] :
             k \in habit_completions}
    \cup {[op |-> "delete", table |-> "mood_entries", target |-> m.id] :
             m \in mood_entries}
    \cup {[op |-> "delete", table |-> "challenge_participants", target |-> p.id] :
             p \in challenge_participants}
    \cup {[op |-> "update", table |-> "habits", target |-> h.id] : h \in habits}
    \cup {[op |-> "update", table |-> "habit_completions", target |-> k.id] :
             k \in habit_completions}
    \cup {[op |-> "update", table |-> "mood_entries", target |-> m.id] :
             m \in mood_entries}
    \cup {[op |-> "update", table |-> "profiles", profileId |-> p.id] :
             p \in profiles}

\* the backend runs a select
ExecSelect(c) ==
    /\ c.op = "select" /\ c.ph = "sent"
    /\ \E fail \in BOOLEAN :
         calls' = (calls \ {c}) \cup
           {Reply(c, fail, <<>>) @@
            [owners |-> IF fail THEN {} ELSE SelectOwners(user[c.s], c.table),
             count |-> IF fail THEN 0 ELSE SelectCount(user[c.s], c.table)]}
    /\ UNCHANGED <<now, auth, db, tab, mountId, view, toast, nActions>>

\* the backend runs a delete of the row with id c.target
ExecDelete(c) ==
    /\ c.op = "delete" /\ c.ph = "sent"
    /\ \E fail \in BOOLEAN :
         LET uid == user[c.s]
             hs == IF ~fail /\ c.table = "habits"
                   THEN DeleteHabitRow(uid, c.target) ELSE habits
         IN /\ habits' = hs
            /\ habit_completions' =
                 IF fail THEN habit_completions
                 ELSE IF c.table = "habits" THEN CascadeCompletions(hs)
                 ELSE IF c.table = "habit_completions"
                 THEN DeleteCompletionRow(uid, c.target)
                 ELSE habit_completions
            /\ mood_entries' =
                 IF ~fail /\ c.table = "mood_entries"
                 THEN DeleteMoodRow(uid, c.target) ELSE mood_entries
            /\ challenge_participants' =
                 IF ~fail /\ c.table = "challenge_participants"
                 THEN {p \in challenge_participants :
                          ~(p.id = c.target /\ ParticipantDeletePolicy(uid, p))}
                 ELSE challenge_participants
            /\ calls' = (calls \ {c}) \cup {Reply(c, fail, <<>>)}
    /\ UNCHANGED <<now, auth, challenges, profiles, auth_users, objects, nextId,
                   tab, mountId, view, toast, nActions>>

\* the backend runs an update of the row with id c.target: is_active false
\* on habits, mood_rating 3 on the two tables that have it, year_of_study 2
\* on profiles
ExecUpdate(c) ==
    /\ c.op = "update" /\ c.ph = "sent"
    /\ \E fail \in BOOLEAN :
         LET uid == user[c.s]
         IN /\ habits' = IF ~fail /\ c.table = "habits"
                         THEN SoftDeleteHabit(uid, c.target) ELSE habits
            /\ habit_completions' =
                 IF ~fail /\ c.table = "habit_completions"
                 THEN UpdateCompletion(uid, c.target, Some(3))
                 ELSE habit_completions
            /\ mood_entries' =
                 IF ~fail /\ c.table = "mood_entries"
                 THEN UpdateMoodRow(uid, c.target, 3, None) ELSE mood_entries
            /\ profiles' = IF ~fail /\ c.table = "profiles"
                           THEN UpdateProfile(uid, c.profileId, Some(2))
                           ELSE profiles
            /\ calls' = (calls \ {c}) \cup {Reply(c, fail, <<>>)}
    /\ UNCHANGED <<now, auth, challenges, challenge_participants, auth_users,
                   objects, nextId, tab, mountId, view, toast, nActions>>

\* the reply of the request reaches no handler of the views
DoneRequest(c) ==
    /\ c.op \in {"select", "delete", "update"} /\ c.ph = "replied"
    /\ calls' = calls \ {c}
    /\ UNCHANGED <<now, auth, db, tab, mountId, view, toast, nActions>>

(* ---------------------------- GoalBreakdown --------------------------- *)
\* a goal text is a sequence of characters; the texts that are taken to be
\* typed: the empty one, a blank one and two that differ after trimming
GoalTexts == {<<>>, <<" ">>, <<"a">>, <<" ", "b">>}

\* String.prototype.trim
RECURSIVE trim(_)
trim(str) ==
    IF str = <<>> THEN str
    ELSE IF Head(str) = " " THEN trim(Tail(str))
    ELSE IF str[Len(str)] = " " THEN trim(SubSeq(str, 1, Len(str) - 1))
    ELSE str

\* the titles of mockSuggestions, in the order of the array
mockSuggestions ==
    <<"Daily Algorithm Practice", "System Design Study", "Mock Interview Practice",
      "Open Source Contribution", "Technical Blog Writing">>

\* the cards of the list that are taken to be clicked
ToggledIndexes == {0, 4}

\* selectedHabits lists its indexes in the order of a Set, that of insertion
GoalInitView ==
    [goal |-> <<>>, suggestedHabits |-> <<>>, loading |-> FALSE,
     selectedHabits |-> <<>>]

\* onChange={(e) => setGoal(e.target.value)}
SetGoal(s, g) ==
    /\ tab[s] = "goal-breakdown" /\ view[s].goal # g
    /\ view' = [view EXCEPT ![s].goal = g]
    /\ UNCHANGED <<now, auth, db, tab, mountId, toast, calls, nActions>>

\* an analysis whose suggestions follow the goal text
analyzeGoalOfText(s) ==
    /\ tab[s] = "goal-breakdown"
    /\ IF trim(view[s].goal) = <<>>
       THEN /\ toast' = [toast EXCEPT ![s] =
                           ErrorToast("Please enter a goal to analyze")]
            /\ UNCHANGED view
       ELSE /\ view' = [view EXCEPT
                          ![s].suggestedHabits =
                              SubSeq(mockSuggestions, 1, 3 + Len(trim(view[s].goal))),
                          ![s].loading = FALSE]
            /\ toast' = [toast EXCEPT ![s] = SuccessToast("Goal analyzed!")]
    /\ UNCHANGED <<now, auth, db, tab, mountId, calls, nActions>>

\* analyzeGoal, which awaits nothing: on every goal text, also the blank ones
\* for which the Analyze button is disabled
analyzeGoal(s) ==
    /\ tab[s] = "goal-breakdown"
    /\ IF trim(view[s].goal) = <<>>
       THEN /\ toast' = [toast EXCEPT ![s] =
                           ErrorToast("Please enter a goal to analyze")]
            /\ UNCHANGED view
       ELSE /\ view' = [view EXCEPT ![s].suggestedHabits = mockSuggestions,
                                    ![s].loading = FALSE]
            /\ toast' = [toast EXCEPT ![s] = SuccessToast("Goal analyzed!")]
    /\ UNCHANGED <<now, auth, db, tab, mountId, calls, nActions>>

\* toggleHabitSelection(index), from a card of the list shown
toggleHabitSelection(s, index) ==
    /\ tab[s] = "goal-breakdown" /\ index < Len(view[s].suggestedHabits)
    /\ LET sel == view[s].selectedHabits
       IN view' = [view EXCEPT ![s].selectedHabits =
                      IF \E k \in 1..Len(sel) : sel[k] = index
                      THEN SelectSeq(sel, LAMBDA x : x # index)
                      ELSE Append(sel, index)]
    /\ UNCHANGED <<now, auth, db, tab, mountId, toast, calls, nActions>>

\* a map over the indexes that skips the first one selected
SelectedToCreateButFirst(uid, v) ==
    [k \in 1..(Len(v.selectedHabits) - 1) |->
        [user_id |-> uid, title |-> v.suggestedHabits[v.selectedHabits[k + 1] + 1],
         target_count |-> 1]]

\* Array.from(selectedHabits).map(index => ({ user_id: user.id,
\*   title: suggestedHabits[index].title, target_count: 1, ... }))
SelectedToCreate(uid, v) ==
    [k \in 1..Len(v.selectedHabits) |->
        [user_id |-> uid, title |-> v.suggestedHabits[v.selectedHabits[k] + 1],
         target_count |-> 1]]

\* createSelectedHabits up to its await, or its early return
createSelectedHabits(s) ==
    /\ tab[s] = "goal-breakdown"
    /\ IF user[s] = NoUser \/ Len(view[s].selectedHabits) = 0
       THEN /\ toast' = [toast EXCEPT ![s] =
                           ErrorToast("Please select at least one habit to create")]
            /\ UNCHANGED <<calls, nActions>>
       ELSE /\ nActions < MaxActions
            /\ nActions' = nActions + 1
            /\ calls' = calls \cup
                 {NewCall(FreeCallId, s, "createSelectedHabits",
                          [habitsToCreate |-> SelectedToCreate(user[s], view[s]),
                           size |-> Len(view[s].selectedHabits)])}
            /\ UNCHANGED toast
    /\ UNCHANGED <<now, auth, db, tab, mountId, view>>

\* the backend runs the insert of createSelectedHabits
ExecCreateSelectedHabits(c) ==
    /\ c.op = "createSelectedHabits" /\ c.ph = "sent"
    /\ \E fail \in BOOLEAN :
         LET after == IF fail THEN habits
                      ELSE InsertHabits(user[c.s], NewHabitRows(c.habitsToCreate))
         IN /\ habits' = after
            /\ nextId' = IF after = habits THEN nextId
                         ELSE nextId + Len(c.habitsToCreate)
            /\ calls' = (calls \ {c}) \cup {Reply(c, after = habits, <<>>)}
    /\ UNCHANGED <<now, auth, habit_completions, challenges, challenge_participants,
                   mood_entries, profiles, auth_users, objects, tab, mountId, view, toast,
                   nActions>>

\* a createSelectedHabits that empties the list and keeps the selection
DoneCreateSelectedHabitsKeepsSelection(c) ==
    /\ c.op = "createSelectedHabits" /\ c.ph = "replied"
    /\ toast' = [toast EXCEPT ![c.s] =
                   IF c.err THEN ErrorToast("Error creating habits")
                   ELSE SuccessToast("habits created successfully!")]
    /\ calls' = calls \ {c}
    /\ view' = IF Mounted(c) /\ ~c.err
               THEN [view EXCEPT ![c.s].suggestedHabits = <<>>,
                                 ![c.s].goal = <<>>]
               ELSE view
    /\ UNCHANGED <<now, auth, db, tab, mountId, nActions>>

\* createSelectedHabits after its await
DoneCreateSelectedHabits(c) ==
    /\ c.op = "createSelectedHabits" /\ c.ph = "replied"
    /\ toast' = [toast EXCEPT ![c.s] =
                   IF c.err THEN ErrorToast("Error creating habits")
                   ELSE SuccessToast("habits created successfully!")]
    /\ calls' = calls \ {c}
    /\ view' = IF Mounted(c) /\ ~c.err
               THEN [view EXCEPT ![c.s].selectedHabits = <<>>,
                                 ![c.s].suggestedHabits = <<>>,
                                 ![c.s].goal = <<>>]
               ELSE view
    /\ UNCHANGED <<now, auth, db, tab, mountId, nActions>>

GoalStep(s) ==
    \/ \E g \in GoalTexts : SetGoal(s, g)
    \/ analyzeGoal(s)
    \/ \E i \in ToggledIndexes : toggleHabitSelection(s, i)
    \/ createSelectedHabits(s)

GoalCallStep(c) == ExecCreateSelectedHabits(c) \/ DoneCreateSelectedHabits(c)

(* ----------------------------- ProofCenter ---------------------------- *)
\* the names of the files the user is taken to pick, as their parts between
\* dots
PickedFiles == {<<"run", "png">>, <<"photo">>}

\* file.name.split('.').pop()
pop(parts) == parts[Len(parts)]

\* `${user.id}/${Date.now()}.${fileExt}` as its segments between slashes
fileName(uid, stamp, fileExt) == <<uid, [stamp |-> stamp, ext |-> fileExt]>>

\* storage.foldername(name): the segments before the last one
foldername(name) == SubSeq(name, 1, Len(name) - 1)

\* policy "Users can upload habit proofs": WITH CHECK (bucket_id =
\* 'habit-proofs' AND auth.uid()::text = (storage.foldername(name))[1])
UploadPolicy(uid, obj) ==
    /\ obj.bucket_id = "habit-proofs"
    /\ foldername(obj.name) # <<>>
    /\ foldername(obj.name)[1] = uid

\* .upload(fileName, file) without upsert: an existing name is refused
UploadError(uid, obj) ==
    IF ~UploadPolicy(uid, obj) THEN RlsViolation
    ELSE IF \E o \in objects : o.bucket_id = obj.bucket_id /\ o.name = obj.name
    THEN "The resource already exists"
    ELSE ""

\* .order('completed_at', { ascending: false })
RECURSIVE OrderByCompletedDesc(_)
OrderByCompletedDesc(S) ==
    IF S = {} THEN <<>>
    ELSE LET mx == CHOOSE r \in S : \A q \in S :
                      \/ q.completed_at < r.completed_at
                      \/ (q.completed_at = r.completed_at /\ q.id <= r.id)
         IN <<mx>> \o OrderByCompletedDesc(S \ {mx})

\* .from('habit_completions').select(...).eq('user_id', uid)
\*   .not('proof_image_url', 'is', null).order('completed_at', ...)
SelectProofEntries(uid) ==
    OrderByCompletedDesc({k \in habit_completions :
                             /\ CompletionPolicy(uid, k) /\ k.user_id = uid
                             /\ k.proof_image_url # None})

ProofInitView == [proofEntries |-> <<>>, loading |-> TRUE, uploading |-> FALSE]

\* useEffect: fetchProofEntries()
ProofMountCalls(s, m) ==
    {[id |-> FreeCallId, s |-> s, m |-> m, op |-> "fetchProofEntries",
      ph |-> "sent"]}

\* the backend runs the select of fetchProofEntries
ExecFetchProofEntries(c) ==
    /\ c.op = "fetchProofEntries" /\ c.ph = "sent"
    /\ \E fail \in BOOLEAN :
         calls' = (calls \ {c}) \cup
           {IF fail THEN Reply(c, TRUE, <<>>)
            ELSE Reply(c, FALSE, SelectProofEntries(user[c.s]))}
    /\ UNCHANGED <<now, auth, db, tab, mountId, view, toast, nActions>>

\* fetchProofEntries after its await
DoneFetchProofEntries(c) ==
    /\ c.op = "fetchProofEntries" /\ c.ph = "replied"
    /\ calls' = calls \ {c}
    /\ toast' = [toast EXCEPT ![c.s] =
                    IF c.err THEN ErrorToast("Error fetching proof entries") ELSE @]
    /\ view' = IF ~Mounted(c) THEN view
               ELSE [view EXCEPT ![c.s].proofEntries = IF c.err THEN @ ELSE c.rows,
                                 ![c.s].loading = FALSE]
    /\ UNCHANGED <<now, auth, db, tab, mountId, nActions>>

\* a file input that stays enabled while uploading
UploadEnabledWhileUploading(s) == TRUE

\* the file input: disabled={uploading}
UploadEnabled(s) == ~view[s].uploading

\* handleFileUpload up to its await, on a file picked in the dialog
handleFileUpload(s, file) ==
    /\ tab[s] = "proof" /\ ~view[s].loading
    /\ UploadEnabled(s)
    /\ user[s] # NoUser
    /\ nActions < MaxActions
    /\ nActions' = nActions + 1
    /\ view' = [view EXCEPT ![s].uploading = TRUE]
    /\ calls' = calls \cup
         {NewCall(FreeCallId, s, "handleFileUpload",
                  [fileName |-> fileName(user[s], now, pop(file))])}
    /\ UNCHANGED <<now, auth, db, tab, mountId, toast>>

\* the storage API runs .from('habit-proofs').upload(fileName, file)
ExecUpload(c) ==
    /\ c.op = "handleFileUpload" /\ c.ph = "sent"
    /\ \E fail \in BOOLEAN :
         LET obj == [bucket_id |-> "habit-proofs", name |-> c.fileName]
             error == IF fail THEN FetchFailed ELSE UploadError(user[c.s], obj)
         IN /\ objects' = IF error = "" THEN objects \cup {obj} ELSE objects
            /\ calls' = (calls \ {c}) \cup
                 {Reply(c, error # "", <<>>) @@ [message |-> error]}
    /\ UNCHANGED <<now, auth, habits, habit_completions, challenges,
                   challenge_participants, mood_entries, profiles, auth_users,
                   nextId, tab, mountId, view, toast, nActions>>

\* handleFileUpload after its await: the toast, and setUploading(false) in
\* the finally block
DoneUpload(c) ==
    /\ c.op = "handleFileUpload" /\ c.ph = "replied"
    /\ calls' = calls \ {c}
    /\ toast' = [toast EXCEPT ![c.s] =
                    IF c.err THEN ErrorToast("Error uploading photo")
                    ELSE SuccessToast("Photo uploaded successfully!")]
    /\ view' = IF Mounted(c) THEN [view EXCEPT ![c.s].uploading = FALSE] ELSE view
    /\ UNCHANGED <<now, auth, db, tab, mountId, nActions>>

ProofStep(s) == \E file \in PickedFiles : handleFileUpload(s, file)

ProofCallStep(c) ==
    \/ ExecFetchProofEntries(c)
    \/ DoneFetchProofEntries(c)
    \/ ExecUpload(c)
    \/ DoneUpload(c)

(* ------------------------------ AppContent --------------------------- *)
InitView(t) ==
    CASE t = "mood" -> MoodInitView
      [] t = "habits" -> HabitsInitView
      [] t = "challenges" -> ChallengesInitView
      [] t = "templates" -> TemplatesInitView
      [] t = "analytics" -> AnalyticsInitView
      [] t = "dashboard" -> DashboardInitView
      [] t = "goal-breakdown" -> GoalInitView
      [] t = "proof" -> ProofInitView

MountCalls(s, t, m) ==
    CASE t = "mood" -> MoodMountCalls(s, m)
      [] t = "habits" -> HabitsMountCalls(s, m)
      [] t = "challenges" -> ChallengesMountCalls(s, m)
      [] t = "templates" -> {}
      [] t = "analytics" -> AnalyticsMountCalls(s, m)
      [] t = "dashboard" -> DashboardMountCalls(s, m)
      [] t = "goal-breakdown" -> {}
      [] t = "proof" -> ProofMountCalls(s, m)

\* Navigation: setActiveTab(t) unmounts the screen shown and mounts a new
\* instance of screen t, whose effects run; calls in flight are not cancelled
Navigate(s, t) ==
    /\ nActions < MaxActions
    /\ nActions' = nActions + 1
    /\ tab' = [tab EXCEPT ![s] = t]
    /\ mountId' = [mountId EXCEPT ![s] = @ + 1]
    /\ activeTab' = [activeTab EXCEPT ![s] = t]
    /\ view' = [view EXCEPT ![s] = InitView(t)]
    /\ calls' = calls \cup MountCalls(s, t, mountId[s] + 1)
    /\ UNCHANGED <<now, user, session, authLoading, gotrue, db, toast>>

(* ---------------------------- AuthProvider ---------------------------- *)
\* AppContent without a user renders AuthForm, whose state starts as this
AuthView ==
    [isLogin |-> TRUE, loading |-> FALSE, emailNotConfirmed |-> FALSE,
     invalidCredentials |-> FALSE]

\* AppContent while useAuth().loading renders a spinner
LoadingView == [loading |-> TRUE]

\* setSession(sess); setUser(sess?.user ?? null); setLoading(false), and the
\* render of AppContent that follows: AuthForm without a user, else the screen
\* of activeTab, whose effects on [user] run again when it stays mounted
Deliver(s, sess) ==
    /\ session' = [session EXCEPT ![s] = sess]
    /\ user' = [user EXCEPT ![s] = UserOf(sess)]
    /\ authLoading' = [authLoading EXCEPT ![s] = FALSE]
    /\ IF sess = None
       THEN IF tab[s] = "auth"
            THEN UNCHANGED <<tab, mountId, view, calls>>
            ELSE /\ tab' = [tab EXCEPT ![s] = "auth"]
                 /\ mountId' = [mountId EXCEPT ![s] = @ + 1]
                 /\ view' = [view EXCEPT ![s] = AuthView]
                 /\ UNCHANGED calls
       ELSE IF SignedIn(s)
            THEN /\ calls' = calls \cup MountCalls(s, tab[s], mountId[s])
                 /\ UNCHANGED <<tab, mountId, view>>
            ELSE /\ tab' = [tab EXCEPT ![s] = activeTab[s]]
                 /\ mountId' = [mountId EXCEPT ![s] = @ + 1]
                 /\ view' = [view EXCEPT ![s] = InitView(activeTab[s])]
                 /\ calls' = calls \cup MountCalls(s, activeTab[s], mountId[s] + 1)

\* supabase.auth.getSession(): the promise settles with the session that is
\* stored then
GetSessionRead(s) ==
    /\ gotrue[s].getSession /\ gotrue[s].read = None
    /\ gotrue' = [gotrue EXCEPT ![s].read = Some(gotrue[s].stored)]
    /\ UNCHANGED <<now, user, session, authLoading, activeTab, db, client>>

\* supabase.auth.getSession().then(...): the callback, with the session read
GetSessionResolved(s) ==
    /\ gotrue[s].getSession /\ gotrue[s].read # None
    /\ gotrue' = [gotrue EXCEPT ![s].getSession = FALSE, ![s].read = None]
    /\ Deliver(s, CHOOSE sess \in gotrue[s].read : TRUE)
    /\ UNCHANGED <<now, activeTab, db, toast, nActions>>

\* the listener of supabase.auth.onAuthStateChange
OnAuthStateChange(s) ==
    /\ gotrue[s].events # <<>>
    /\ gotrue' = [gotrue EXCEPT ![s].events = Tail(@)]
    /\ Deliver(s, Head(gotrue[s].events))
    /\ UNCHANGED <<now, activeTab, db, toast, nActions>>

\* supabase.auth stores sess and notifies the listener
Notify(g, sess) == [g EXCEPT !.stored = sess, !.events = Append(@, sess)]

\* the account that the person at browser s signs in to
AccountOf(s) == IF s = "s1" THEN "u1" ELSE "u2"

\* a signOut whose handler writes the shared values itself
SignOutClearingUser(s) ==
    /\ SignedIn(s)
    /\ nActions < MaxActions
    /\ nActions' = nActions + 1
    /\ calls' = calls \cup {NewCall(FreeCallId, s, "signOut", [at |-> "header"])}
    /\ user' = [user EXCEPT ![s] = NoUser]
    /\ session' = [session EXCEPT ![s] = None]
    /\ UNCHANGED <<now, authLoading, gotrue, activeTab, db, tab, mountId, view, toast>>

\* Header: onClick={signOut}
SignOut(s) ==
    /\ SignedIn(s)
    /\ nActions < MaxActions
    /\ nActions' = nActions + 1
    /\ calls' = calls \cup {NewCall(FreeCallId, s, "signOut", [at |-> "header"])}
    /\ UNCHANGED <<now, auth, db, tab, mountId, view, toast>>

\* supabase.auth.signOut(): the stored session is removed unless the request
\* fails; the result is not read
ExecSignOut(c) ==
    /\ c.op = "signOut" /\ c.ph = "sent"
    /\ \E fail \in BOOLEAN :
         gotrue' = IF fail THEN gotrue
                   ELSE [gotrue EXCEPT ![c.s] = Notify(@, None)]
    /\ calls' = calls \ {c}
    /\ UNCHANGED <<now, user, session, authLoading, activeTab, db, tab, mountId, view,
                   toast, nActions>>

(* ------------------------------ AuthForm ------------------------------ *)
EmailNotConfirmed == "Email not confirmed"
InvalidCredentials == "Invalid login credentials"
\* the errors that signInWithPassword and signUp are taken to answer with
SignInErrors == {EmailNotConfirmed, InvalidCredentials, FetchFailed,
                 "Email not confirmed."}
SignUpErrors == {"User already registered", FetchFailed}
\* the options of the yearOfStudy select
YearOptions == 1..4
\* the username the user is taken to type in the sign-up form
TypedUsername == "ada"

\* onClick={() => setIsLogin(b)}
SetIsLogin(s, b) ==
    /\ tab[s] = "auth" /\ view[s].isLogin # b
    /\ view' = [view EXCEPT ![s].isLogin = b]
    /\ UNCHANGED <<now, auth, db, tab, mountId, toast, calls, nActions>>

\* the submit button: disabled={loading}
SubmitAuthEnabled(s) == tab[s] = "auth" /\ ~view[s].loading

\* handleSubmit up to its await of signIn or signUp
HandleSubmitAuth(s, year) ==
    /\ SubmitAuthEnabled(s)
    /\ nActions < MaxActions
    /\ nActions' = nActions + 1
    /\ view' = [view EXCEPT ![s].loading = TRUE, ![s].emailNotConfirmed = FALSE,
                            ![s].invalidCredentials = FALSE]
    /\ calls' = calls \cup
         {NewCall(FreeCallId, s, "handleSubmitAuth",
                  [isLogin |-> view[s].isLogin, username |-> TypedUsername,
                   year_of_study |-> year])}
    /\ UNCHANGED <<now, auth, db, tab, mountId, toast>>

\* the backend answers signInWithPassword (c.isLogin) or signUp
ExecSubmitAuth(c) ==
    /\ c.op = "handleSubmitAuth" /\ c.ph = "sent"
    /\ IF c.isLogin
       THEN /\ \/ /\ AccountOf(c.s) \in auth_users
                  /\ gotrue' = [gotrue EXCEPT
                                   ![c.s] = Notify(@, SessionOf(AccountOf(c.s)))]
                  /\ calls' = (calls \ {c}) \cup
                       {Reply(c, FALSE, <<>>) @@ [message |-> ""]}
               \/ \E m \in SignInErrors :
                     /\ calls' = (calls \ {c}) \cup
                          {Reply(c, TRUE, <<>>) @@ [message |-> m]}
                     /\ UNCHANGED gotrue
            /\ UNCHANGED <<auth_users, profiles>>
       ELSE \/ \E m \in SignUpErrors :
                 /\ calls' = (calls \ {c}) \cup
                      {Reply(c, TRUE, <<>>) @@ [message |-> m]}
                 /\ UNCHANGED <<gotrue, auth_users, profiles>>
            \/ \E id \in NewUserIds \ auth_users, withSession \in BOOLEAN :
                 /\ id = CHOOSE u \in NewUserIds \ auth_users : TRUE
                 /\ auth_users' = auth_users \cup {id}
                 /\ profiles' = handle_new_user(id, Some(c.username),
                                             Some(c.year_of_study))
                 /\ gotrue' = IF withSession
                              THEN [gotrue EXCEPT ![c.s] = Notify(@, SessionOf(id))]
                              ELSE gotrue
                 /\ calls' = (calls \ {c}) \cup
                      {Reply(c, FALSE, <<>>) @@ [message |-> ""]}
    /\ UNCHANGED <<now, user, session, authLoading, activeTab, habits,
                   habit_completions, challenges, challenge_participants,
                   mood_entries, objects, nextId, tab, mountId, view, toast,
                   nActions>>

\* a catch block that shows the message of every error
SubmitAuthToastOfEveryError(c, t) ==
    IF ~c.err
    THEN SuccessToast(IF c.isLogin THEN "Welcome back!"
                      ELSE "Account created successfully!")
    ELSE ErrorToast(c.message)

\* the toast of handleSubmit after its await, if any
SubmitAuthToast(c, t) ==
    IF ~c.err
    THEN SuccessToast(IF c.isLogin THEN "Welcome back!"
                      ELSE "Account created successfully!")
    ELSE IF c.message \in {EmailNotConfirmed, InvalidCredentials} THEN t
    ELSE ErrorToast(c.message)

\* the catch and finally blocks of handleSubmit
SubmitAuthView(c, v) ==
    [v EXCEPT !.loading = FALSE,
              !.emailNotConfirmed =
                  IF c.err /\ c.message = EmailNotConfirmed THEN TRUE ELSE @,
              !.invalidCredentials =
                  IF c.err /\ c.message = InvalidCredentials THEN TRUE ELSE @]

\* handleSubmit after its await
DoneSubmitAuth(c) ==
    /\ c.op = "handleSubmitAuth" /\ c.ph = "replied"
    /\ calls' = calls \ {c}
    /\ toast' = [toast EXCEPT ![c.s] = SubmitAuthToast(c, @)]
    /\ view' = IF Mounted(c) THEN [view EXCEPT ![c.s] = SubmitAuthView(c, @)]
               ELSE view
    /\ UNCHANGED <<now, auth, db, tab, mountId, nActions>>

\* handleResendVerification up to its await
HandleResendVerification(s) ==
    /\ tab[s] = "auth" /\ view[s].emailNotConfirmed
    /\ nActions < MaxActions
    /\ nActions' = nActions + 1
    /\ calls' = calls \cup {NewCall(FreeCallId, s, "resend", [at |-> "form"])}
    /\ UNCHANGED <<now, auth, db, tab, mountId, view, toast>>

\* supabase.auth.resend resolves, with an error in its result (the backend
\* refused the request) or without, or rejects; err is the rejection
ExecResend(c) ==
    /\ c.op = "resend" /\ c.ph = "sent"
    /\ \E outcome \in {"accepted", "refused", "rejected"} :
         calls' = (calls \ {c}) \cup
              {Reply(c, outcome = "rejected", <<>>) @@
               [message |-> IF outcome = "rejected" THEN FetchFailed ELSE "",
                result |-> [error |-> outcome = "refused"]]}
    /\ UNCHANGED <<now, auth, db, tab, mountId, view, toast, nActions>>

\* handleResendVerification after its await: the result is not read
DoneResend(c) ==
    /\ c.op = "resend" /\ c.ph = "replied"
    /\ calls' = calls \ {c}
    /\ toast' = [toast EXCEPT ![c.s] =
                    IF c.err THEN ErrorToast("Failed to resend email")
                    ELSE SuccessToast("Verification email sent!")]
    /\ UNCHANGED <<now, auth, db, tab, mountId, view, nActions>>

AuthStep(s) ==
    \/ GetSessionRead(s)
    \/ GetSessionResolved(s)
    \/ OnAuthStateChange(s)
    \/ SignOut(s)
    \/ \E b \in BOOLEAN : SetIsLogin(s, b)
    \/ \E y \in YearOptions : HandleSubmitAuth(s, y)
    \/ HandleResendVerification(s)

AuthCallStep(c) ==
    \/ ExecSignOut(c)
    \/ ExecSubmitAuth(c)
    \/ DoneSubmitAuth(c)
    \/ ExecResend(c)
    \/ DoneResend(c)

(* ------------------------------- clock -------------------------------- *)
Tick ==
    /\ \E t \in Instants : t > now /\ now' = t
    /\ UNCHANGED <<auth, db, client>>

(* --------------------------- specifications --------------------------- *)
\* AuthProvider has delivered the stored session of each browser and the
\* screen shown is the one of activeTab, or AuthForm without a user
AuthSettled ==
    /\ session = [s \in Sessions |-> SessionOf(user[s])]
    /\ authLoading = [s \in Sessions |-> FALSE]
    /\ gotrue = [s \in Sessions |-> [stored |-> SessionOf(user[s]), events |-> <<>>,
                                     getSession |-> FALSE, read |-> None]]
    /\ activeTab = [s \in Sessions |-> IF user[s] = NoUser THEN "dashboard"
                                        ELSE tab[s]]

EmptyDb ==
    /\ habits = {} /\ habit_completions = {} /\ challenges = {}
    /\ challenge_participants = {} /\ mood_entries = {} /\ profiles = {}
    /\ auth_users = Users /\ objects = {} /\ nextId = 1

\* two accounts with a habit each, one completion of u1, one challenge of u2
\* that u2 has joined
SeededDb ==
    /\ habits = {[id |-> 1, user_id |-> "u1", title |-> "Morning run",
                  target_count |-> 1, is_active |-> TRUE, created_at |-> 1000],
                 [id |-> 2, user_id |-> "u2", title |-> "Read",
                  target_count |-> 1, is_active |-> TRUE, created_at |-> 2000]}
    /\ habit_completions = {[id |-> 3, habit_id |-> 1, user_id |-> "u1",
                             completed_at |-> 40000, mood_rating |-> None,
                             proof_image_url |-> None]}
    /\ challenges = {[id |-> 4, title |-> "Week of code", creator_id |-> "u2",
                      max_participants |-> None, is_active |-> TRUE,
                      created_at |-> 3000]}
    /\ challenge_participants = {[id |-> 5, challenge_id |-> 4, user_id |-> "u2",
                                  joined_at |-> 3000]}
    /\ mood_entries = {} /\ profiles = {} /\ auth_users = Users
    /\ auth_users = Users /\ objects = {} /\ nextId = 10


\* the view of screen t of account uid once its mount fetches have resolved
\* without error
LoadedView(t, uid) ==
    CASE t = "mood" ->
           [MoodInitView EXCEPT !.moodEntries = Limit(OrderByCreatedDesc(MoodRowsOf(uid)),
                                                      MoodLimit),
                                !.loading = FALSE]
      [] t = "habits" ->
           [HabitsInitView EXCEPT !.habits = SelectHabits(uid), !.loading = FALSE]
      [] t = "challenges" ->
           [ChallengesInitView EXCEPT !.challenges = SelectChallenges(uid),
                                      !.myParticipations = SelectMyParticipations(uid),
                                      !.loading = FALSE]
      [] t = "templates" -> TemplatesInitView
      [] t = "analytics" ->
           [AnalyticsInitView EXCEPT
               !.analyticsData =
                   AnalyticsData(7, Some(CountActiveHabits(uid)),
                                 Some(CountCompletionsSince(uid, Today(now) - 7))),
               !.loading = FALSE]


\* every session shows screen t, loaded from the tables as they are, with no
\* call in flight
Settled(t, v) ==
    /\ tab = [s \in Sessions |-> t]
    /\ mountId = [s \in Sessions |-> 1]
    /\ view = [s \in Sessions |-> v]
    /\ toast = [s \in Sessions |-> NoToast]
    /\ calls = {}
    /\ nActions = 0

\* two MoodJournal views, of one user or of two, over an empty journal
InitMood ==
    /\ now = 43200
    /\ user \in [Sessions -> Users] /\ user["s1"] = "u1"
    /\ EmptyDb
    /\ Settled("mood", [MoodInitView EXCEPT !.loading = FALSE])
    /\ AuthSettled

NextMood ==
    \/ \E s \in Sessions : MoodStep(s)
    \/ \E c \in calls : MoodCallStep(c)
    \/ Tick

SpecMood == InitMood /\ [][NextMood]_vars

\* two Challenges views, of one user or of two, over the seeded tables
InitChallenges ==
    /\ now = 43200
    /\ user \in [Sessions -> Users] /\ user["s1"] = "u1"
    /\ SeededDb
    /\ tab = [s \in Sessions |-> "challenges"]
    /\ mountId = [s \in Sessions |-> 1]
    /\ view = [s \in Sessions |-> LoadedView("challenges", user[s])]
    /\ toast = [s \in Sessions |-> NoToast]
    /\ calls = {}
    /\ nActions = 0
    /\ AuthSettled

\* joining and leaving from both views
NextChallenges ==
    \/ \E s \in Sessions : \E i \in 1..Len(view[s].challenges) : JoinChallenge(s, i)
    \/ \E s \in Sessions : \E i \in 1..Len(view[s].challenges) : LeaveChallenge(s, i)
    \/ \E c \in calls : ParticipationCallStep(c)

SpecChallenges == InitChallenges /\ [][NextChallenges]_vars

\* one signed-in session of u1 on any screen, the other session signed out
Init ==
    /\ now = 43200
    /\ user = [s \in Sessions |-> IF s = "s1" THEN "u1" ELSE NoUser]
    /\ SeededDb
    /\ \E t \in WidgetTabs :
         /\ tab = [s \in Sessions |-> IF s = "s1" THEN t ELSE "auth"]
         /\ view = [s \in Sessions |-> IF s = "s1" THEN LoadedView(t, "u1")
                                       ELSE AuthView]
    /\ mountId = [s \in Sessions |-> 1]
    /\ toast = [s \in Sessions |-> NoToast]
    /\ calls = {}
    /\ nActions = 0
    /\ AuthSettled

WidgetStep(s) ==
    \/ HabitsStep(s)
    \/ MoodStep(s)
    \/ ChallengesStep(s)
    \/ TemplatesStep(s)
    \/ AnalyticsStep(s)
    \/ \E t \in WidgetTabs : SignedIn(s) /\ Navigate(s, t)

CallStep(c) ==
    \/ HabitsCallStep(c)
    \/ MoodCallStep(c)
    \/ ChallengesCallStep(c)
    \/ TemplatesCallStep(c)
    \/ AnalyticsCallStep(c)

Next ==
    \/ \E s \in Sessions : WidgetStep(s)
    \/ \E c \in calls : CallStep(c)

Spec == Init /\ [][Next]_vars

\* two Challenges views over a challenge limited to one participant, which its
\* creator u2 has joined
InitCapacity ==
    /\ now = 43200
    /\ user \in [Sessions -> Users] /\ user["s1"] = "u1"
    /\ habits = {} /\ habit_completions = {} /\ mood_entries = {}
    /\ profiles = {} /\ auth_users = Users /\ objects = {} /\ nextId = 10
    /\ challenges = {[id |-> 4, title |-> "Week of code", creator_id |-> "u2",
                      max_participants |-> Some(1), is_active |-> TRUE,
                      created_at |-> 3000]}
    /\ challenge_participants = {[id |-> 5, challenge_id |-> 4, user_id |-> "u2",
                                  joined_at |-> 3000]}
    /\ tab = [s \in Sessions |-> "challenges"]
    /\ mountId = [s \in Sessions |-> 1]
    /\ view = [s \in Sessions |-> LoadedView("challenges", user[s])]
    /\ toast = [s \in Sessions |-> NoToast]
    /\ calls = {}
    /\ nActions = 0
    /\ AuthSettled

SpecCapacity == InitCapacity /\ [][NextChallenges]_vars

\* u1 on HabitsManager with the list loaded; the habits screen and the
\* Dashboard, which the user goes to and back from
InitDelete == Init /\ tab["s1"] = "habits"

NextDelete ==
    \/ HabitsStep("s1")
    \/ \E t \in {"dashboard", "habits"} : SignedIn("s1") /\ Navigate("s1", t)
    \/ \E c \in calls : HabitsCallStep(c)
    \/ \E c \in calls : DashboardCallStep(c)

SpecDelete == InitDelete /\ [][NextDelete]_vars

\* the screens whose component has a busy flag
BusyTabs == {"habits", "mood", "challenges", "templates", "proof"}

\* browser s1 loads the page, with a stored session of its account or without
\* one, and supabase.auth notifies the new listener of the stored session or
\* not, depending on its version; browser s2 shows AuthForm
InitAuth ==
    /\ now = 43200
    /\ SeededDb
    /\ user = [s \in Sessions |-> NoUser]
    /\ session = [s \in Sessions |-> None]
    /\ authLoading = [s \in Sessions |-> s = "s1"]
    /\ \E stored \in {NoUser, AccountOf("s1")}, initial \in BOOLEAN :
         gotrue = [s \in Sessions |->
                     IF s = "s1"
                     THEN [stored |-> SessionOf(stored),
                           events |-> IF initial THEN <<SessionOf(stored)>> ELSE <<>>,
                           getSession |-> TRUE, read |-> None]
                     ELSE [stored |-> None, events |-> <<>>, getSession |-> FALSE,
                           read |-> None]]
    /\ activeTab = [s \in Sessions |-> "dashboard"]
    /\ tab = [s \in Sessions |-> IF s = "s1" THEN "loading" ELSE "auth"]
    /\ mountId = [s \in Sessions |-> 1]
    /\ view = [s \in Sessions |-> IF s = "s1" THEN LoadingView ELSE AuthView]
    /\ toast = [s \in Sessions |-> NoToast]
    /\ calls = {}
    /\ nActions = 0

OneCallAtATime == Cardinality(calls') <= 1

\* signing in, up and out, and behind the sign-in the Dashboard and the
\* HabitsManager with its fetches, mutations and form; a step is taken when
\* it leaves at most one call in flight
NextAuth ==
    /\ \/ AuthStep("s1")
       \/ \E c \in calls : AuthCallStep(c)
       \/ \E s \in Sessions : \E t \in {"dashboard", "habits"} :
              SignedIn(s) /\ Navigate(s, t)
       \/ \E s \in Sessions : HabitsStep(s)
       \/ \E c \in calls : HabitsCallStep(c) \/ DashboardCallStep(c)
    /\ OneCallAtATime

SpecAuth == InitAuth /\ [][NextAuth]_vars

\* the screens that read from the backend when they are mounted
DataTabs == {"dashboard", "habits", "analytics", "mood", "challenges", "proof"}

\* a page load of browser s1 as in InitAuth; the user walks through the data
\* screens and signs out, each time after the requests of the screen shown
\* have returned; the backend answers every request and every continuation
\* of an await runs
ViewsStep ==
    \/ GetSessionRead("s1")
    \/ GetSessionResolved("s1")
    \/ OnAuthStateChange("s1")
    \/ \E t \in DataTabs : SignedIn("s1") /\ calls = {} /\ Navigate("s1", t)
    \/ calls = {} /\ SignOut("s1")

ViewsCallStep ==
    \E c \in calls :
        \/ CallStep(c)
        \/ DashboardCallStep(c)
        \/ ExecFetchProofEntries(c) \/ DoneFetchProofEntries(c)
        \/ ExecSignOut(c)

NextViews == ViewsStep \/ ViewsCallStep

SpecViews == InitAuth /\ [][NextViews]_vars /\ WF_vars(ViewsCallStep)

\* u1 on GoalBreakdown, the other session signed out
InitGoal ==
    /\ now = 43200
    /\ user = [s \in Sessions |-> IF s = "s1" THEN "u1" ELSE NoUser]
    /\ SeededDb
    /\ tab = [s \in Sessions |-> IF s = "s1" THEN "goal-breakdown" ELSE "auth"]
    /\ view = [s \in Sessions |-> IF s = "s1" THEN GoalInitView ELSE AuthView]
    /\ mountId = [s \in Sessions |-> 1]
    /\ toast = [s \in Sessions |-> NoToast]
    /\ calls = {}
    /\ nActions = 0
    /\ AuthSettled

NextGoal ==
    \/ \E s \in Sessions : GoalStep(s)
    \/ \E c \in calls : GoalCallStep(c)

SpecGoal == InitGoal /\ [][NextGoal]_vars

\* the backend under requests that no form of the client restricts: u1 signed
\* in, the other session on the sign-up form
InitBackend ==
    /\ now = 43200
    /\ user = [s \in Sessions |-> IF s = "s1" THEN "u1" ELSE NoUser]
    /\ SeededDb
    /\ tab = [s \in Sessions |-> IF s = "s1" THEN "templates" ELSE "auth"]
    /\ view = [s \in Sessions |-> IF s = "s1" THEN TemplatesInitView ELSE AuthView]
    /\ mountId = [s \in Sessions |-> 1]
    /\ toast = [s \in Sessions |-> NoToast]
    /\ calls = {}
    /\ nActions = 0
    /\ AuthSettled

NextBackend ==
    \/ \E s \in Sessions : \E req \in WriteRequests : SendWrite(s, req)
    \/ \E s \in Sessions : \E y \in {None} \cup {Some(v) : v \in SentYears} :
           \E n \in SentUsernames : SendSignUp(s, n, y)
    \/ \E c \in calls :
           \/ ExecWriteMood(c)
           \/ ExecWriteCompletion(c)
           \/ ExecWriteProfile(c)
           \/ ExecSignUp(c)
           \/ DoneWrite(c)

SpecBackend == InitBackend /\ [][NextBackend]_vars

\* two accounts signed in, each with a profile, a habit and a mood entry, and
\* the completion, the challenge and the participation of SeededDb
InitRls ==
    /\ now = 43200
    /\ user = [s \in Sessions |-> IF s = "s1" THEN "u1" ELSE "u2"]
    /\ habits = {[id |-> 1, user_id |-> "u1", title |-> "Morning run",
                  target_count |-> 1, is_active |-> TRUE, created_at |-> 1000],
                 [id |-> 2, user_id |-> "u2", title |-> "Read",
                  target_count |-> 1, is_active |-> TRUE, created_at |-> 2000]}
    /\ habit_completions = {[id |-> 3, habit_id |-> 1, user_id |-> "u1",
                             completed_at |-> 40000, mood_rating |-> None,
                             proof_image_url |-> None]}
    /\ challenges = {[id |-> 4, title |-> "Week of code", creator_id |-> "u2",
                      max_participants |-> None, is_active |-> TRUE,
                      created_at |-> 3000]}
    /\ challenge_participants = {[id |-> 5, challenge_id |-> 4, user_id |-> "u2",
                                  joined_at |-> 3000]}
    /\ mood_entries = {[id |-> 6, user_id |-> "u1", mood_rating |-> 4,
                        reflection |-> None, created_at |-> 41000],
                       [id |-> 7, user_id |-> "u2", mood_rating |-> 2,
                        reflection |-> None, created_at |-> 42000]}
    /\ profiles = {[id |-> u, username |-> None, year_of_study |-> None] :
                       u \in Users}
    /\ auth_users = Users /\ objects = {} /\ nextId = 10
    /\ tab = [s \in Sessions |-> "templates"]
    /\ view = [s \in Sessions |-> TemplatesInitView]
    /\ mountId = [s \in Sessions |-> 1]
    /\ toast = [s \in Sessions |-> NoToast]
    /\ calls = {}
    /\ nActions = 0
    /\ AuthSettled

NextRls ==
    \/ \E s \in Sessions : \E req \in RlsRequests : SendWrite(s, req)
    \/ \E c \in calls :
           \/ ExecSelect(c)
           \/ ExecWriteCompletion(c)
           \/ ExecDelete(c)
           \/ ExecUpdate(c)
           \/ DoneRequest(c)
           \/ DoneWrite(c)

SpecRls == InitRls /\ [][NextRls]_vars

\* user u1 on ProofCenter with one proof entry, the other session signed out
InitProof ==
    /\ now = 43200
    /\ user = [s \in Sessions |-> IF s = "s1" THEN "u1" ELSE NoUser]
    /\ habits = {[id |-> 1, user_id |-> "u1", title |-> "Morning run",
                  target_count |-> 1, is_active |-> TRUE, created_at |-> 1000]}
    /\ habit_completions = {[id |-> 3, habit_id |-> 1, user_id |-> "u1",
                             completed_at |-> 40000, mood_rating |-> None,
                             proof_image_url |-> Some("run.png")]}
    /\ challenges = {} /\ challenge_participants = {} /\ mood_entries = {}
    /\ profiles = {} /\ auth_users = Users /\ objects = {} /\ nextId = 10
    /\ tab = [s \in Sessions |-> IF s = "s1" THEN "proof" ELSE "auth"]
    /\ view = [s \in Sessions |->
                 IF s = "s1"
                 THEN [ProofInitView EXCEPT !.proofEntries = SelectProofEntries("u1"),
                                            !.loading = FALSE]
                 ELSE AuthView]
    /\ mountId = [s \in Sessions |-> 1]
    /\ toast = [s \in Sessions |-> NoToast]
    /\ calls = {}
    /\ nActions = 0
    /\ AuthSettled

\* uploads from ProofCenter, leaving it and coming back, and the clock
NextProof ==
    \/ ProofStep("s1")
    \/ \E c \in calls : ProofCallStep(c)
    \/ Navigate("s1", "proof")
    \/ Tick

SpecProof == InitProof /\ [][NextProof]_vars

\* browser s1 shows AuthForm, or a screen with a busy flag to user u1; the
\* other browser stays on AuthForm
InitRetry ==
    /\ now = 43200
    /\ SeededDb
    /\ \E t \in BusyTabs \cup {"auth"} :
         /\ user = [s \in Sessions |-> IF s = "s1" /\ t # "auth" THEN "u1" ELSE NoUser]
         /\ tab = [s \in Sessions |-> IF s = "s1" THEN t ELSE "auth"]
         /\ view = [s \in Sessions |->
                      IF s # "s1" \/ t = "auth" THEN AuthView
                      ELSE IF t = "proof"
                      THEN [ProofInitView EXCEPT !.loading = FALSE]
                      ELSE LoadedView(t, "u1")]
    /\ mountId = [s \in Sessions |-> 1]
    /\ toast = [s \in Sessions |-> NoToast]
    /\ calls = {}
    /\ nActions = 0
    /\ AuthSettled

\* the handlers behind a busy flag with the inputs of their forms, the
\* navigation between their screens and the delivery of a sign-in
RetryStep ==
    \/ ClickAddHabit("s1")
    \/ \E t \in TypedTitles : TypeHabitTitle("s1", t)
    \/ CloseHabitModal("s1")
    \/ HandleSubmitHabit("s1")
    \/ ClickCreateChallenge("s1")
    \/ \E t \in TypedChallengeTitles, mp \in TypedMaxParticipants :
           tab["s1"] = "challenges" /\ TypeChallengeForm("s1", t, mp)
    \/ tab["s1"] = "challenges" /\ HandleSubmitChallenge("s1")
    \/ \E v \in ClickedMoods("s1") : SelectMood("s1", v)
    \/ SubmitMoodEntry("s1")
    \/ TemplatesStep("s1")
    \/ ProofStep("s1")
    \/ \E t \in BusyTabs : SignedIn("s1") /\ Navigate("s1", t)
    \/ \E b \in BOOLEAN : SetIsLogin("s1", b)
    \/ HandleSubmitAuth("s1", 1)
    \/ OnAuthStateChange("s1")

\* the backend answers a call, or the handler that awaits it continues
RetryCallStep ==
    \E c \in calls :
        \/ CallStep(c)
        \/ ProofCallStep(c)
        \/ ExecSubmitAuth(c)
        \/ DoneSubmitAuth(c)
        \/ DashboardCallStep(c)

NextRetry == RetryStep \/ RetryCallStep

\* every call is answered and every continuation runs
SpecRetry == InitRetry /\ [][NextRetry]_vars /\ WF_vars(RetryCallStep)

(* ------------------------------- claims ------------------------------- *)
\* C1: for every user and every calendar day, mood_entries holds at most one
\* row of that user created on that day, after any submitMoodEntry calls,
\* also from sessions whose existence check and write interleave.
C1_OneMoodRowPerUserPerDay ==
    \A r1, r2 \in mood_entries :
        (r1.user_id = r2.user_id /\ Today(r1.created_at) = Today(r2.created_at))
            => r1 = r2

\* a backend call the step runs on the tables, and its reply
Executed(c) ==
    /\ c \in calls /\ c.ph = "sent"
    /\ \E d \in calls' : d.id = c.id /\ d.op = c.op /\ d.ph = "replied"

ReplyOf(c) == CHOOSE d \in calls' : d.id = c.id

\* a reply the step hands to the handler that awaits it
Consumed(c) == c \in calls /\ c.ph = "replied" /\ c \notin calls'

HasParticipant(challengeId, uid) ==
    \E p \in challenge_participants : p.challenge_id = challengeId /\ p.user_id = uid

\* C5: challenge_participants never holds two rows with one (challenge_id,
\* user_id); a joinChallenge of a user who is already a participant is rejected
\* by the backend with the table unchanged, and its handler shows an error
\* toast and leaves the table and myParticipations (the whole view) unchanged,
\* issuing no fetch.
C5_DuplicateJoinRejected ==
    [][/\ \A p1, p2 \in challenge_participants' :
             (p1.challenge_id = p2.challenge_id /\ p1.user_id = p2.user_id)
                 => p1 = p2
       /\ \A c \in calls :
             (c.op = "joinChallenge" /\ Executed(c)
              /\ HasParticipant(c.challengeId, user[c.s]))
                 => /\ challenge_participants' = challenge_participants
                    /\ ReplyOf(c).err
       /\ \A c \in calls :
             (c.op = "joinChallenge" /\ Consumed(c) /\ c.err)
                 => /\ toast'[c.s].kind = "error"
                    /\ view' = view
                    /\ challenge_participants' = challenge_participants
                    /\ calls' = calls \ {c}]_vars

\* a second join of a participant has been rejected for the unique constraint
C5_Witness ==
    \E c \in calls :
        /\ c.op = "joinChallenge" /\ c.ph = "replied" /\ c.err
        /\ c.message = KeyViolation
        /\ HasParticipant(c.challengeId, user[c.s])

OutOfRange(c) ==
    \/ c.op \in {"insertMood", "updateMood"} /\ c.moodRating \notin 1..5
    \/ c.op \in {"insertCompletion", "updateCompletion"}
       /\ ~(c.completionRating \subseteq 1..5)
    \/ c.op \in {"insertProfile", "updateProfile", "signUp"}
       /\ ~(c.year \subseteq 1..4)

WriteReply(c) ==
    /\ c.ph = "replied"
    /\ \/ c.op \in {"completeHabit", "deleteHabit", "handleSubmitHabit",
                    "joinChallenge", "leaveChallenge", "handleSubmitChallenge",
                    "applyTemplate"}
       \/ c.op = "submitMoodEntry" /\ c.pc \in {"insert", "update"}

\* the read query of the list a mutation affects
RefetchOf(op) ==
    CASE op \in {"completeHabit", "deleteHabit", "handleSubmitHabit",
                 "applyTemplate"} -> "fetchHabits"
      [] op \in {"joinChallenge", "leaveChallenge"} -> "fetchMyParticipations"
      [] op = "handleSubmitChallenge" -> "fetchChallenges"
      [] op = "submitMoodEntry" -> "fetchMoodEntries"

\* the last reply of a read handler, and whether the backend answered it
\* with an error
ReadReply(c) ==
    /\ c.ph = "replied"
    /\ \/ c.op \in {"fetchHabits", "fetchMoodEntries", "checkTodayMood",
                    "fetchChallenges", "fetchMyParticipations"}
       \/ c.op = "fetchAnalyticsData" /\ c.pc = "completions"

ReadFailed(c) ==
    IF c.op = "fetchAnalyticsData"
    THEN c.habitsData = None \/ c.completionsData = None
    ELSE c.err

\* what a view holds from its reads
ReadState(v) == [v EXCEPT !.loading = FALSE]

\* the lists a view holds
Lists(v) ==
    IF "habits" \in DOMAIN v THEN <<v.habits>>
    ELSE IF "challenges" \in DOMAIN v THEN <<v.challenges, v.myParticipations>>
    ELSE IF "moodEntries" \in DOMAIN v THEN <<v.moodEntries>>
    ELSE <<>>

\* C2: the handler of every successful mutation (create or update habit,
\* complete habit, delete habit, join, leave or create challenge, submit mood,
\* apply template) issues, on the reply of its write, exactly one call, the
\* read query of the list the mutation affects.
C2_SuccessfulMutationRefetchesOnce ==
    [][\A c \in calls :
          (Consumed(c) /\ WriteReply(c) /\ ~c.err)
              => /\ Cardinality(calls' \ calls) = 1
                 /\ \A d \in calls' \ calls :
                       d.op = RefetchOf(c.op) /\ d.ph = "sent"]_vars

\* C3: when the backend answers the write of a mutation handler (complete
\* habit, delete habit, create/update habit, join challenge, leave challenge,
\* create challenge, submit mood) with an error, the handler leaves the lists
\* of its view and the tables unchanged, issues no call, and shows an error
\* toast.
C3_FailedMutationKeepsList ==
    [][\A c \in calls :
          (Consumed(c) /\ WriteReply(c) /\ c.op # "applyTemplate" /\ c.err)
              => /\ Lists(view'[c.s]) = Lists(view[c.s])
                 /\ calls' = calls \ {c}
                 /\ toast'[c.s].kind = "error"
                 /\ UNCHANGED db]_vars

\* completeHabit has failed: its error toast is up, nothing is in flight and
\* the list is the one loaded at mount
C3_Witness ==
    /\ tab["s1"] = "habits"
    /\ toast["s1"] = ErrorToast("Error completing habit")
    /\ calls = {}
    /\ nActions > 0
    /\ view["s1"].habits = SelectHabits("u1")

\* C4: when the backend answers a read query (habits, analytics, mood
\* entries, today's mood, challenges, my participations) with an error, the
\* handler leaves what the view holds from its last successful read unchanged
\* and shows an error toast.
C4_FailedReadKeepsViewAndNotifies ==
    [][\A c \in calls :
          (Consumed(c) /\ ReadReply(c) /\ ReadFailed(c) /\ Mounted(c))
              => /\ ReadState(view'[c.s]) = ReadState(view[c.s])
                 /\ toast'[c.s].kind = "error"]_vars

\* C7: a successful applyTemplate of "exam-prep" adds to habits exactly four
\* rows, all with user_id of the current user, with the titles "Morning Study
\* Session", "Practice Problems", "Review Notes" and "Mock Test", and changes
\* no other row of habits and no other table.
C7_ExamPrepInsertsFourHabits ==
    [][\A c \in calls :
          (c.op = "applyTemplate" /\ c.template = "exam-prep" /\ Executed(c)
           /\ ~ReplyOf(c).err)
              => /\ habits \subseteq habits'
                 /\ Cardinality(habits' \ habits) = 4
                 /\ \A h \in habits' \ habits : h.user_id = user[c.s]
                 /\ {h.title : h \in habits' \ habits} =
                      {"Morning Study Session", "Practice Problems",
                       "Review Notes", "Mock Test"}
                 /\ UNCHANGED <<habit_completions, challenges,
                                challenge_participants, mood_entries, profiles,
                                auth_users, objects>>]_vars

\* "Exam Preparation" has been applied by u1: its four habits are stored
C7_Witness ==
    /\ \E c \in calls :
          c.op = "applyTemplate" /\ c.template = "exam-prep"
          /\ c.ph = "replied" /\ ~c.err
    /\ \A title \in {"Morning Study Session", "Practice Problems", "Review Notes",
                     "Mock Test"} :
          \E h \in habits : h.title = title /\ h.user_id = "u1" /\ h.id >= 10

\* the calls of the component instance that session s shows
Outstanding(s) == {c \in calls : c.s = s /\ Mounted(c)}

\* C9 as stated: each widget has at most one backend call outstanding at
\* every reachable state.
C9_AtMostOneCallPerWidget ==
    \A s \in Sessions : Cardinality(Outstanding(s)) <= 1

\* C9: of a handler behind a busy flag (submitMoodEntry: submitting;
\* applyTemplate and the handleSubmit of the two modals: loading) each
\* mounted widget has at most one invocation outstanding, and the flag is
\* set while it is.
C9_BusyFlagHandlersRunOnce ==
    \A s \in Sessions :
        \A op \in {"submitMoodEntry", "applyTemplate", "handleSubmitHabit",
                   "handleSubmitChallenge"} :
            LET running == {c \in Outstanding(s) : c.op = op}
            IN /\ Cardinality(running) <= 1
               /\ running # {} =>
                    CASE op = "submitMoodEntry" -> view[s].submitting
                      [] op = "applyTemplate" -> view[s].loading
                      [] OTHER -> view[s].modalLoading

\* a submitMoodEntry is outstanding next to another call of MoodJournal
C9_Witness ==
    \E c \in Outstanding("s1") :
        /\ c.op = "submitMoodEntry" /\ view["s1"].submitting
        /\ Cardinality(Outstanding("s1")) = 2

\* C10: nothing guards a view against a stale reply: whenever a read of
\* Analytics or of HabitsManager resolves for a mounted view, the view takes
\* that read's result, whatever was selected or fetched since it was issued.
C10_RepliesOverwriteInArrivalOrder ==
    [][\A c \in calls :
          (Consumed(c) /\ ReadReply(c) /\ Mounted(c))
              => /\ c.op = "fetchAnalyticsData" =>
                      view'[c.s].analyticsData =
                          AnalyticsData(DaysOf(c.timeRange), c.habitsData,
                                        c.completionsData)
                 /\ (c.op = "fetchHabits" /\ ~c.err) =>
                      view'[c.s].habits = c.rows]_vars

\* no request is in flight and Analytics shows data computed for another
\* time range than the selected one
C10_Witness ==
    /\ calls = {}
    /\ tab["s1"] = "analytics"
    /\ view["s1"].analyticsData.weeklyProgressLen # DaysOf(view["s1"].timeRange) + 1

\* C11: the shared user and session values change only in the two callbacks
\* of AuthProvider, the resolution of getSession and the listener of
\* onAuthStateChange: no step of a feature component, of signIn, signUp,
\* signOut or resendVerificationEmail changes them.
C11_OnlyAuthProviderWritesUserAndSession ==
    [][(user' # user \/ session' # session) =>
          \E s \in Sessions :
              /\ gotrue'[s] # gotrue[s]
              /\ \/ gotrue[s].getSession /\ ~gotrue'[s].getSession
                 \/ gotrue'[s].events = Tail(gotrue[s].events)
              /\ \A o \in Sessions \ {s} : user'[o] = user[o] /\ session'[o] = session[o]
              /\ user'[s] = UserOf(session'[s])
              /\ nActions' = nActions /\ toast' = toast /\ db' = db]_vars

\* the listener has set the user after a sign-in from AuthForm, and cleared
\* it after a sign-out
C11_Witness ==
    /\ user["s1"] = NoUser /\ ~authLoading["s1"]
    /\ toast["s1"] = SuccessToast("Welcome back!")
    /\ nActions = 2

\* C12: after handleSubmit's await, an error "Email not confirmed" sets only
\* emailNotConfirmed and shows no toast, an error "Invalid login credentials"
\* sets only invalidCredentials and shows no toast, any other error sets
\* neither flag and shows a toast with the raw message; every submit starts by
\* clearing both flags, and they are never both true.
C12_AuthErrorsBranchOnMessage ==
    [][/\ \A c \in calls \ calls' :
            (c.op = "handleSubmitAuth" /\ c.ph = "replied" /\ c.err) =>
               LET v == view[c.s]
                   w == view'[c.s]
               IN /\ c.message = EmailNotConfirmed =>
                       /\ toast' = toast
                       /\ Mounted(c) =>
                            /\ w.emailNotConfirmed
                            /\ w.invalidCredentials = v.invalidCredentials
                  /\ c.message = InvalidCredentials =>
                       /\ toast' = toast
                       /\ Mounted(c) =>
                            /\ w.invalidCredentials
                            /\ w.emailNotConfirmed = v.emailNotConfirmed
                  /\ c.message \notin {EmailNotConfirmed, InvalidCredentials} =>
                       /\ toast'[c.s] = ErrorToast(c.message)
                       /\ Mounted(c) =>
                            /\ w.emailNotConfirmed = v.emailNotConfirmed
                            /\ w.invalidCredentials = v.invalidCredentials
       /\ \A c \in calls' \ calls :
            (c.op = "handleSubmitAuth" /\ c.ph = "sent") =>
               ~view'[c.s].emailNotConfirmed /\ ~view'[c.s].invalidCredentials
       /\ \A s \in Sessions :
            tab'[s] = "auth" =>
               ~(view'[s].emailNotConfirmed /\ view'[s].invalidCredentials)]_vars

\* a second submit answered "Invalid login credentials" after one answered
\* "Email not confirmed": only invalidCredentials is set, no toast was shown
C12_Witness ==
    /\ tab["s1"] = "auth" /\ nActions = 2 /\ calls = {}
    /\ view["s1"].invalidCredentials /\ ~view["s1"].emailNotConfirmed
    /\ toast["s1"] = NoToast

\* a text without a character other than the space
Blank(g) == \A i \in 1..Len(g) : g[i] = " "

\* a step of analyzeGoal in session s: it leaves goal, selection, calls and
\* tables alone and shows one of its two toasts
AnalyzeStep(s) ==
    /\ tab[s] = "goal-breakdown"
    /\ calls' = calls /\ db' = db
    /\ view'[s].goal = view[s].goal
    /\ view'[s].selectedHabits = view[s].selectedHabits
    /\ toast'[s].msg \in {"Please enter a goal to analyze", "Goal analyzed!"}
    /\ \/ toast'[s] # toast[s]
       \/ view'[s].suggestedHabits # view[s].suggestedHabits

\* C13: whatever the non-blank goal text, analyzeGoal sets suggestedHabits to
\* the same five suggestions in the same order; on a blank goal it leaves
\* suggestedHabits unchanged and shows an error.
C13_AnalyzeGoalIgnoresText ==
    [][\A s \in Sessions :
          AnalyzeStep(s) =>
             IF Blank(view[s].goal)
             THEN /\ view'[s].suggestedHabits = view[s].suggestedHabits
                  /\ toast'[s].kind = "error"
             ELSE /\ view'[s].suggestedHabits =
                       <<"Daily Algorithm Practice", "System Design Study",
                         "Mock Interview Practice", "Open Source Contribution",
                         "Technical Blog Writing">>
                  /\ toast'[s].kind = "success"]_vars

\* the five suggestions are shown for a goal with a leading space
C13_Witness ==
    /\ view["s1"].goal = <<" ", "b">>
    /\ Len(view["s1"].suggestedHabits) = 5
    /\ toast["s1"].kind = "success"

\* the columns of the habits rows that createSelectedHabits sends
SentColumns(h) == [user_id |-> h.user_id, title |-> h.title,
                   target_count |-> h.target_count]

\* C14: createSelectedHabits with a non-empty selection issues one insert
\* whose rows are the suggestions at the selected indexes, one row each, with
\* user_id the current user and target_count 1; on success selection,
\* suggestions and goal are cleared, on failure all three are left unchanged.
C14_CreateSelectedInsertsSelection ==
    [][/\ \A s \in Sessions :
            (tab[s] = "goal-breakdown" /\ nActions' # nActions) =>
               LET v == view[s]
                   new == calls' \ calls
               IN /\ Len(v.selectedHabits) > 0
                  /\ Cardinality(new) = 1
                  /\ \A c \in new :
                       /\ c.op = "createSelectedHabits" /\ c.ph = "sent"
                       /\ Len(c.habitsToCreate) = Len(v.selectedHabits)
                       /\ {r.title : r \in {c.habitsToCreate[k] :
                                                k \in 1..Len(c.habitsToCreate)}} =
                            {v.suggestedHabits[v.selectedHabits[k] + 1] :
                                k \in 1..Len(v.selectedHabits)}
                       /\ Cardinality({v.selectedHabits[k] :
                                          k \in 1..Len(v.selectedHabits)}) =
                            Len(v.selectedHabits)
                       /\ \A k \in 1..Len(c.habitsToCreate) :
                            /\ c.habitsToCreate[k].user_id = user[s]
                            /\ c.habitsToCreate[k].target_count = 1
       /\ \A c \in calls :
            (c.op = "createSelectedHabits" /\ Executed(c)) =>
               IF ReplyOf(c).err THEN habits' = habits
               ELSE /\ habits \subseteq habits'
                    /\ Cardinality(habits' \ habits) = Len(c.habitsToCreate)
                    /\ {SentColumns(h) : h \in habits' \ habits} =
                         {c.habitsToCreate[k] : k \in 1..Len(c.habitsToCreate)}
       /\ \A c \in calls :
            (c.op = "createSelectedHabits" /\ Consumed(c) /\ Mounted(c)) =>
               IF c.err THEN view' = view
               ELSE /\ view'[c.s].selectedHabits = <<>>
                    /\ view'[c.s].suggestedHabits = <<>>
                    /\ view'[c.s].goal = <<>>
       /\ \A c \in calls :
            c.op = "createSelectedHabits" => (c \in calls' \/ Executed(c) \/ Consumed(c))
      ]_vars

\* two suggestions selected and created by u1, last one first: both rows are
\* stored and the three values are cleared
C14_Witness ==
    /\ \E h \in habits : h.title = "Technical Blog Writing" /\ h.user_id = "u1"
                          /\ h.target_count = 1
    /\ \E h \in habits : h.title = "Daily Algorithm Practice" /\ h.user_id = "u1"
    /\ \A h \in habits : h.title # "Mock Interview Practice"
    /\ Cardinality(habits) = 4
    /\ calls = {}
    /\ view["s1"] = GoalInitView
    /\ toast["s1"].kind = "success"

\* the handlers of the data views that only read
ReadOps ==
    {"fetchHabits", "fetchMoodEntries", "checkTodayMood", "fetchChallenges",
     "fetchMyParticipations", "fetchAnalyticsData", "fetchDashboardData"}

\* C15: in every data view the loading flag is true whenever a read query of
\* the view is in flight, for the read issued at mount and for every later
\* refetch
C15_LoadingWhileReadInFlight ==
    \A c \in calls :
        (c.op \in ReadOps /\ c.ph = "sent" /\ Mounted(c)) => view[c.s].loading

\* the rows of user uid that carry local date d
MoodRowsOfDate(uid, d) == {r \in MoodRowsOf(uid) : Today(r.created_at) = d}
CompletionsOfDate(uid, d) ==
    {k \in habit_completions :
        CompletionPolicy(uid, k) /\ k.user_id = uid /\ Today(k.completed_at) = d}

\* C16: the window of every "today" query (checkTodayMood, the existence
\* check of submitMoodEntry, the today-completions query of Dashboard) is the
\* half-open interval from the start of the local date to the start of the
\* next date: it selects every row created on that date, those of the last
\* second of the day included
C16_TodayWindowCoversWholeDay ==
    \A c \in calls :
        /\ (c.op = "checkTodayMood" \/ (c.op = "submitMoodEntry" /\ c.pc = "check"))
              => MoodRowsToday(user[c.s], c.today) = MoodRowsOfDate(user[c.s], c.today)
        /\ (c.op = "fetchDashboardData" /\ c.pc = "today")
              => CompletionsBetween(user[c.s], c.today, c.today)
                    = CompletionsOfDate(user[c.s], c.today)

\* habit h has a completion row of user uid stamped with the current date
CompletedOnDate(uid, h) ==
    \E k \in habit_completions :
        /\ k.habit_id = h.id /\ k.user_id = uid
        /\ Today(k.completed_at) = Today(now)

\* C17: once completeHabit(h) has succeeded and its refetch has delivered the
\* list, isCompletedToday(h) is true for the habit shown, so that Mark Done is
\* disabled and the view creates at most one completion row per habit and day
C17_MarkDoneDisabledAfterCompletion ==
    \A s \in Sessions :
        (/\ HabitsShown(s) /\ calls = {}
         /\ toast[s] = SuccessToast("Habit completed!")
         /\ view[s].habits = SelectHabits(user[s]))
        => \A i \in 1..Len(view[s].habits) :
              CompletedOnDate(user[s], view[s].habits[i])
                  => isCompletedToday(view[s].habits[i])

\* the challenge_participants rows of challenge id
ParticipantsOf(id) == {p \in challenge_participants : p.challenge_id = id}

\* C18: the number of challenge_participants rows of a challenge whose
\* max_participants is set never exceeds max_participants, whatever users join
\* and leave
C18_ParticipantsWithinCapacity ==
    \A ch \in challenges :
        \A n \in ch.max_participants : Cardinality(ParticipantsOf(ch.id)) <= n

\* the rows of the owned tables that belong to account uid
RowsOwnedBy(uid) ==
    <<{h \in habits : h.user_id = uid},
      {k \in habit_completions : k.user_id = uid},
      {m \in mood_entries : m.user_id = uid},
      {p \in profiles : p.id = uid}>>

\* C19: for two distinct users A and B, no read of A on habits,
\* habit_completions, mood_entries or profiles returns a row owned by B, and
\* no write of A changes or deletes a row owned by B; the active challenges
\* and all challenge_participants rows are returned to every signed-in user
C19_RowLevelIsolation ==
    [][\A c \in calls : Executed(c) =>
         /\ (c.op = "select" /\ ~ReplyOf(c).err /\ c.table \in OwnedTables)
               => ReplyOf(c).owners \subseteq {user[c.s]}
         /\ (c.op = "select" /\ ~ReplyOf(c).err /\ c.table = "challenges")
               => ReplyOf(c).count = Cardinality({ch \in challenges : ch.is_active})
         /\ (c.op = "select" /\ ~ReplyOf(c).err
             /\ c.table = "challenge_participants")
               => ReplyOf(c).count = Cardinality(challenge_participants)
         /\ \A B \in Users \ {user[c.s]} : RowsOwnedBy(B)' = RowsOwnedBy(B)
      ]_vars

\* the uploads of handleFileUpload that the step starts in session s
UploadsStarted(s) ==
    {c \in calls' : /\ c.op = "handleFileUpload" /\ c.s = s
                    /\ \A d \in calls : d.id # c.id \/ d.op # c.op}

\* C20: handleFileUpload stores the file under a path whose first segment is
\* the id of the current user; an upload is started only while uploading is
\* false, so that the ProofCenter shown has at most one upload in flight and
\* uploading is true while it has; uploading is false again once the upload
\* has succeeded or failed
C20_UploadUnderUserIdOneAtATime ==
    /\ [](\A s \in Sessions :
            LET running == {c \in Outstanding(s) : c.op = "handleFileUpload"}
            IN /\ Cardinality(running) <= 1
               /\ running # {} => view[s].uploading)
    /\ [][/\ \A s \in Sessions : \A c \in UploadsStarted(s) :
                /\ ~view[s].uploading /\ view'[s].uploading
                /\ c.fileName[1] = user[s]
          /\ \A c \in calls : (c.op = "handleFileUpload" /\ Executed(c)) =>
                /\ \A o \in objects' \ objects :
                      o.name = c.fileName /\ o.name[1] = user[c.s]
                /\ ~ReplyOf(c).err => objects' # objects
          /\ \A c \in calls :
                (c.op = "handleFileUpload" /\ Consumed(c) /\ Mounted(c))
                    => ~view'[c.s].uploading
          /\ \A s \in Sessions :
                (tab[s] = "proof" /\ tab'[s] = "proof" /\ mountId'[s] = mountId[s]
                 /\ view[s].uploading /\ ~view'[s].uploading)
                    => \E c \in calls : c.op = "handleFileUpload" /\ Consumed(c)
         ]_vars

\* an upload of u1 has succeeded: the object is stored under the folder u1
\* and the file input is enabled again
C20_Witness ==
    /\ \E o \in objects : o.name[1] = "u1" /\ Len(o.name) = 2
    /\ calls = {}
    /\ tab["s1"] = "proof" /\ ~view["s1"].uploading
    /\ toast["s1"] = SuccessToast("Photo uploaded successfully!")

\* C21: every user identity created by a sign-up has exactly one profiles row
\* whose id is the user id, also when the metadata of the sign-up carries a
\* username that another profile has or a year_of_study outside 1..4
C21_EveryNewUserHasOneProfile ==
    \A u \in auth_users \cap NewUserIds :
        Cardinality({p \in profiles : p.id = u}) = 1

\* the busy flag of the component that session s shows: AuthForm.loading,
\* CreateHabitModal.loading, CreateChallengeModal.loading,
\* MoodJournal.submitting, Templates.loading, ProofCenter.uploading
Busy(s) ==
    CASE tab[s] \in {"auth", "templates"} -> view[s].loading
      [] tab[s] \in {"habits", "challenges"} -> view[s].modalLoading
      [] tab[s] = "mood" -> view[s].submitting
      [] tab[s] = "proof" -> view[s].uploading
      [] OTHER -> FALSE

\* C22: after the backend call of a user action has failed or succeeded the
\* busy flag of the action returns to false; a failed save leaves the create
\* modal as it is, open with the form data entered, and a successful one
\* closes it and resets the form
C22_BusyFlagReturnsToFalse ==
    /\ \A s \in Sessions : Busy(s) ~> ~Busy(s)
    /\ [][\A c \in calls :
            (c.op \in {"handleSubmitHabit", "handleSubmitChallenge"}
             /\ Consumed(c) /\ Mounted(c))
                => /\ ~view'[c.s].modalLoading
                   /\ IF c.err
                      THEN /\ view'[c.s].showCreateModal = view[c.s].showCreateModal
                           /\ view'[c.s].formData = view[c.s].formData
                      ELSE /\ ~view'[c.s].showCreateModal
                           /\ view'[c.s].formData.title = ""
         ]_vars

\* a save of the habit modal has failed: the modal is open with the title
\* entered and can be submitted again
C22_Witness ==
    /\ tab["s1"] = "habits" /\ calls = {}
    /\ toast["s1"] = ErrorToast("Error saving habit")
    /\ view["s1"].showCreateModal /\ ~view["s1"].modalLoading
    /\ view["s1"].formData.title = "Read 20 pages"

\* C23: the habit modal opens only with "Add Habit"; a submit of it that the
\* backend accepts inserts exactly one new habits row and changes no row
\* that existed, whatever edit icons were clicked and whatever opens, closes
\* and submits came before
C23_AddHabitSubmitInsertsOneRow ==
    [][\A c \in calls :
          (c.op = "handleSubmitHabit" /\ Executed(c) /\ ~ReplyOf(c).err)
              => /\ habits \subseteq habits'
                 /\ Cardinality(habits' \ habits) = 1
                 /\ \A r \in habits' \ habits : \A h \in habits : h.id # r.id
      ]_vars

\* C24: a deleteHabit(h) that the backend accepts only sets is_active of h to
\* false: the row of h and every habit_completions row are still there and no
\* other habit is changed; a fetchHabits that succeeds afterwards returns a
\* list without h, and the habits select of the Dashboard does not count it
C24_DeleteHabitOnlyDeactivates ==
    [][/\ \A c \in calls :
            (c.op = "deleteHabit" /\ Executed(c) /\ ~ReplyOf(c).err)
                => /\ \E h \in habits' : h.id = c.habitId /\ ~h.is_active
                   /\ habits' = {IF h.id = c.habitId
                                 THEN [h EXCEPT !.is_active = FALSE] ELSE h :
                                    h \in habits}
                   /\ habit_completions' = habit_completions
       /\ \A c \in calls :
            (c.op = "fetchHabits" /\ Executed(c) /\ ~ReplyOf(c).err)
                => \A i \in 1..Len(ReplyOf(c).rows) :
                      \A h \in habits : ~h.is_active => ReplyOf(c).rows[i].id # h.id
       /\ \A c \in calls :
            (c.op = "fetchDashboardData" /\ c.pc = "habits" /\ Executed(c)
             /\ ReplyOf(c).habits # None)
                => ReplyOf(c).habits =
                      Some(Cardinality({h \in habits :
                                           h.user_id = user[c.s] /\ h.is_active}))
      ]_vars

\* the habit of u1 was deleted from HabitsManager, and the Dashboard opened
\* afterwards has loaded and counts no habit
C24_Witness ==
    /\ tab["s1"] = "dashboard" /\ ~view["s1"].loading /\ calls = {}
    /\ toast["s1"] = SuccessToast("Habit deleted successfully")
    /\ \E h \in habits : h.user_id = "u1" /\ ~h.is_active
    /\ \E k \in habit_completions : k.habit_id = 1
    /\ view["s1"].stats.totalHabits = 0

\* C25: the statistics that a Dashboard whose four reads all succeeded sets
\* are within their ranges: todayCompleted is at most totalHabits and
\* weeklyCompletion is in 0..100; the completionRate that Analytics sets is
\* in 0..100, and 0 when its habits read returned no active habit
C25_StatsWithinRanges ==
    [][/\ \A c \in calls :
            (/\ c.op = "fetchDashboardData" /\ c.pc = "recent"
             /\ Consumed(c) /\ Mounted(c)
             /\ c.habits # None /\ c.todayCompletions # None
             /\ c.weekCompletions # None)
                => /\ view'[c.s].stats.todayCompleted <= view'[c.s].stats.totalHabits
                   /\ view'[c.s].stats.weeklyCompletion \in 0..100
       /\ \A s \in Sessions :
            (tab'[s] = "analytics")
                => /\ view'[s].analyticsData.completionRate \in 0..100
                   /\ view'[s].analyticsData.target = 0
                        => view'[s].analyticsData.completionRate = 0
      ]_vars

ViewLoading(s) == tab[s] \in DataTabs /\ view[s].loading

\* C27: AppContent shows a screen of renderContent only when the auth loading
\* flag is false and there is a user, and AuthForm exactly when the flag is
\* false and there is none; a data screen that is mounted issues its read in
\* the same step, and its loading flag becomes false eventually, whether the
\* read succeeds or fails
C27_ViewsLeaveTheirSpinner ==
    /\ [](\A s \in Sessions :
            /\ SignedIn(s) => ~authLoading[s] /\ user[s] # NoUser
            /\ tab[s] = "auth" <=> ~authLoading[s] /\ user[s] = NoUser)
    /\ [][\A s \in Sessions :
             (mountId'[s] # mountId[s] /\ tab'[s] \in DataTabs)
                => \E c \in calls' \ calls :
                      c.s = s /\ c.m = mountId'[s] /\ c.ph = "sent"
        ]_vars
    /\ \A s \in Sessions : ViewLoading(s) ~> ~ViewLoading(s)

\* the Dashboard mounted after the page load has left its spinner although
\* one of its reads failed
C27_Witness ==
    /\ tab["s1"] = "dashboard" /\ ~view["s1"].loading /\ calls = {}
    /\ ~authLoading["s1"] /\ user["s1"] = "u1"
    /\ view["s1"].stats.totalHabits = 0
    /\ nActions = 0

\* C28: in GoalBreakdown every index of selectedHabits is an index of
\* suggestedHabits, at every state; a step that changes selectedHabits while
\* the list is shown toggles the membership of one index and of no other, so
\* that toggling the same index again gives the selection of before
C28_SelectedIndexesValid ==
    /\ [](\A s \in Sessions :
            tab[s] = "goal-breakdown"
               => \A k \in 1..Len(view[s].selectedHabits) :
                     view[s].selectedHabits[k] \in
                        0..(Len(view[s].suggestedHabits) - 1))
    /\ [][\A s \in Sessions :
             (/\ tab[s] = "goal-breakdown" /\ tab'[s] = "goal-breakdown"
              /\ view'[s].selectedHabits # view[s].selectedHabits
              /\ calls' = calls)
                => LET old == {view[s].selectedHabits[k] :
                                  k \in 1..Len(view[s].selectedHabits)}
                       new == {view'[s].selectedHabits[k] :
                                  k \in 1..Len(view'[s].selectedHabits)}
                   IN /\ Cardinality(new) = Len(view'[s].selectedHabits)
                      /\ \E index \in 0..(Len(view[s].suggestedHabits) - 1) :
                            new = (old \ {index}) \cup ({index} \ old)
        ]_vars

\* the last and the first card are selected, by toggles, and the insert of
\* createSelectedHabits has failed: the selection and the list are kept
C28_Witness ==
    /\ tab["s1"] = "goal-breakdown" /\ calls = {}
    /\ toast["s1"] = ErrorToast("Error creating habits")
    /\ view["s1"].selectedHabits = <<4, 0>>
    /\ view["s1"].suggestedHabits = mockSuggestions

\* C29: handleResendVerification shows "Verification email sent!" only when
\* the backend accepted the resend request; when the call reports an error,
\* in its result or by rejecting, it shows an error toast and no success
\* toast
C29_ResendSuccessOnlyWhenAccepted ==
    [][\A c \in calls :
          (c.op = "resend" /\ Consumed(c))
              => IF c.err \/ c.result.error
                 THEN toast'[c.s].kind = "error"
                 ELSE toast'[c.s] = SuccessToast("Verification email sent!")
      ]_vars

\* no request is in flight and HabitsManager shows a list that misses a
\* completion stored by a handler that has returned
StaleHabitsList ==
    /\ calls = {}
    /\ tab["s1"] = "habits"
    /\ toast["s1"] = SuccessToast("Habit completed!")
    /\ view["s1"].habits # SelectHabits("u1")
    /\ nextId = 12

====
